---------------------------- MODULE Spec2Model ----------------------------
(***************************************************************************)
(* Model of the input-normalisation and lending-metrics engine             *)
(* (src/app/metrics.py, src/app/parser_helper.py).                         *)
(*                                                                         *)
(* Numbers.  Python floats are IEEE-754 binary64.  They are modelled bit   *)
(* for bit: a float is <<s, m, e>> with sign s, a 53-bit significand m     *)
(* held as a multi-limb natural, and value s * m * 2^e; + - * / and        *)
(* round(x, k) are computed exactly and rounded to nearest, ties to even,  *)
(* as the hardware and CPython do.  Not modelled: the exponent range       *)
(* (overflow to inf, subnormals), nan, and the sign of zero.               *)
(***************************************************************************)
EXTENDS Integers, Sequences, FiniteSets, TLC

VARIABLES pc, op, args, result

vars == <<pc, op, args, result>>

-----------------------------------------------------------------------------
(* Naturals of any size: little-endian sequences of limbs below LimbBase,  *)
(* without leading zero limbs (<<>> is 0).  TLC's integers are 32 bits.    *)

LimbBase == 2^15

Max(a, b) == IF a >= b THEN a ELSE b

Min(a, b) == IF a <= b THEN a ELSE b

Limb(a, i) == IF i <= Len(a) THEN a[i] ELSE 0

\* a without its leading zero limbs
BNorm(a) ==
    LET nz == {i \in 1 .. Len(a) : a[i] # 0}
    IN  IF nz = {} THEN <<>>
        ELSE SubSeq(a, 1, CHOOSE i \in nz : \A j \in nz : j <= i)

\* 0 <= n < 2^31
BFromInt(n) ==
    BNorm(<<n % LimbBase, (n \div LimbBase) % LimbBase, n \div (LimbBase * LimbBase)>>)

\* a < 2^31
BToInt(a) == Limb(a, 1) + LimbBase * (Limb(a, 2) + LimbBase * Limb(a, 3))

\* -1, 0, 1 as a < b, a = b, a > b
BCmp(a, b) ==
    LET df == {i \in 1 .. Max(Len(a), Len(b)) : Limb(a, i) # Limb(b, i)}
        t  == CHOOSE i \in df : \A j \in df : j <= i
    IN  IF df = {} THEN 0 ELSE IF Limb(a, t) > Limb(b, t) THEN 1 ELSE -1

\* a + b; the carry into limb i comes from the nearest lower limb whose sum
\* overflows, through limbs whose sums are all LimbBase - 1
BAdd(a, b) ==
    LET n     == Max(Len(a), Len(b))
        s(i)  == Limb(a, i) + Limb(b, i)
        cy(i) == IF \E j \in 1 .. (i - 1) :
                        /\ s(j) >= LimbBase
                        /\ \A k \in (j + 1) .. (i - 1) : s(k) = LimbBase - 1
                 THEN 1 ELSE 0
    IN  BNorm(<<>> \o [i \in 1 .. (n + 1) |-> (s(i) + cy(i)) % LimbBase])

\* a - b for a >= b; the borrow into limb i comes from the nearest lower limb
\* whose difference is negative, through limbs whose differences are all 0
BSub(a, b) ==
    LET d(i)  == Limb(a, i) - Limb(b, i)
        bw(i) == IF \E j \in 1 .. (i - 1) :
                        /\ d(j) < 0
                        /\ \A k \in (j + 1) .. (i - 1) : d(k) = 0
                 THEN 1 ELSE 0
    IN  BNorm(<<>> \o [i \in 1 .. Len(a) |-> (d(i) - bw(i) + LimbBase) % LimbBase])

\* a * k for 0 <= k < LimbBase
BMulSmall(a, k) ==
    BAdd(<<>> \o [i \in 1 .. Len(a) |-> (a[i] * k) % LimbBase],
         <<0>> \o [i \in 1 .. Len(a) |-> (a[i] * k) \div LimbBase])

RECURSIVE SeqSum(_, _, _)
\* s[lo] + ... + s[hi]
SeqSum(s, lo, hi) ==
    IF lo > hi THEN 0
    ELSE IF lo = hi THEN s[lo]
    ELSE SeqSum(s, lo, (lo + hi) \div 2) + SeqSum(s, ((lo + hi) \div 2) + 1, hi)

\* a * b, by columns: column k collects the limb products a[i] * b[k + 1 - i],
\* their low halves in place and their high halves one limb up
BMul(a, b) ==
    LET n      == Len(a) + Len(b)
        pr(i, k) == IF k + 1 - i >= 1 /\ k + 1 - i <= Len(b) THEN a[i] * b[k + 1 - i] ELSE 0
        lo(k)  == SeqSum([i \in 1 .. Len(a) |-> pr(i, k) % LimbBase], 1, Len(a))
        hi(k)  == SeqSum([i \in 1 .. Len(a) |-> pr(i, k) \div LimbBase], 1, Len(a))
        col    == <<>> \o [k \in 1 .. n |-> lo(k) + (IF k = 1 THEN 0 ELSE hi(k - 1))]
    IN  IF a = <<>> \/ b = <<>> THEN <<>>
        ELSE BAdd(<<>> \o [k \in 1 .. n |-> col[k] % LimbBase],
                  <<0>> \o [k \in 1 .. n |-> col[k] \div LimbBase])

\* Number of bits of n < LimbBase
BitLenInt(n) == CHOOSE k \in 0 .. 15 : n < 2^k /\ (k = 0 \/ n >= 2^(k - 1))

BBitLen(a) ==
    IF a = <<>> THEN 0 ELSE 15 * (Len(a) - 1) + BitLenInt(a[Len(a)])

Zeros(n) == <<>> \o [i \in 1 .. n |-> 0]

\* a * 2^k
BShl(a, k) ==
    IF a = <<>> THEN <<>>
    ELSE Zeros(k \div 15) \o BMulSmall(a, 2^(k % 15))

\* floor(a / 2^k)
BShr(a, k) ==
    LET w == k \div 15
        b == k % 15
    IN  IF w >= Len(a) THEN <<>>
        ELSE BNorm(<<>> \o [i \in 1 .. (Len(a) - w) |->
                       (a[i + w] \div 2^b) + (Limb(a, i + w + 1) % 2^b) * 2^(15 - b)])

\* a mod 2^k
BLow(a, k) ==
    IF k \div 15 >= Len(a) THEN a
    ELSE BNorm(SubSeq(a, 1, k \div 15) \o <<a[(k \div 15) + 1] % 2^(k % 15)>>)

BIsOdd(a) == a # <<>> /\ a[1] % 2 = 1

BOne == <<1>>

\* 2^k
BPow2(k) == Zeros(k \div 15) \o <<2^(k % 15)>>

\* <<q2, r2>> = <<2q, 2r>> with r < d becomes <<2q + b, 2r - b*d>>, b the next bit
BDivStepR(q2, r2, d) ==
    IF BCmp(r2, d) >= 0 THEN <<BAdd(q2, BOne), BSub(r2, d)>> ELSE <<q2, r2>>

\* One more quotient bit
BDivStep(qr, d) == BDivStepR(BShl(qr[1], 1), BShl(qr[2], 1), d)

RECURSIVE BDivRun(_, _, _, _)
\* k quotient bits, k <= size, size a power of 8: eight runs of size / 8 bits
\* one after the other (the steps are laid out eight wide so that the
\* evaluation stays shallow)
BDivRun(qr, d, k, size) ==
    IF k = 0 THEN qr
    ELSE IF size = 1 THEN BDivStep(qr, d)
    ELSE LET w  == size \div 8
             s1 == BDivRun(qr, d, Min(k, w), w)
             s2 == BDivRun(s1, d, Max(0, Min(k - w, w)), w)
             s3 == BDivRun(s2, d, Max(0, Min(k - 2 * w, w)), w)
             s4 == BDivRun(s3, d, Max(0, Min(k - 3 * w, w)), w)
             s5 == BDivRun(s4, d, Max(0, Min(k - 4 * w, w)), w)
             s6 == BDivRun(s5, d, Max(0, Min(k - 5 * w, w)), w)
             s7 == BDivRun(s6, d, Max(0, Min(k - 6 * w, w)), w)
         IN  IF /\ Len(s1) = 2 /\ Len(s2) = 2 /\ Len(s3) = 2 /\ Len(s4) = 2
                /\ Len(s5) = 2 /\ Len(s6) = 2 /\ Len(s7) = 2
             THEN BDivRun(s7, d, Max(0, Min(k - 7 * w, w)), w)
             ELSE qr

\* <<floor((q + r/d) * 2^k), remainder>> for r < d and k <= 512: long division
BDivBits(q, r, d, k) == BDivRun(<<q, r>>, d, k, 512)

-----------------------------------------------------------------------------
(* Python floats.  <<s, m, e>> is s * m * 2^e with m of exactly FPrec bits *)
(* (FZero for 0.0), so equal floats are equal tuples.                      *)
(* An operator that needs an intermediate value several times takes it as  *)
(* a parameter of a second operator (FRound -> FRoundL -> FRoundSh ...).   *)

FPrec == 53

\* Working precision of the C library's pow(), whose result is the exact
\* power rounded to FPrec bits (to within the library's last-bit accuracy).
PowPrec == 2 * FPrec + 22

FZero == <<1, <<>>, 0>>

FIsZero(x) == x[2] = <<>>

FNeg(x) == IF FIsZero(x) THEN x ELSE <<0 - x[1], x[2], x[3]>>

\* m of prec or prec + 1 bits: the float s * m * 2^e
FRoundCut(s, m, e, prec) ==
    IF BBitLen(m) > prec THEN <<s, BShr(m, 1), e + 1>> ELSE <<s, m, e>>

\* q the kept bits, c the dropped bits compared with one half (-1, 0, 1)
FRoundUp(s, q, c, sticky, e, prec) ==
    FRoundCut(s, IF c > 0 \/ (c = 0 /\ (sticky \/ BIsOdd(q))) THEN BAdd(q, BOne) ELSE q,
              e, prec)

\* M of L bits
FRoundL(s, M, sticky, e, prec, L) ==
    IF M = <<>> THEN FZero
    ELSE IF L <= prec THEN <<s, BShl(M, prec - L), e - (prec - L)>>
    ELSE FRoundUp(s, BShr(M, L - prec), BCmp(BLow(M, L - prec), BPow2(L - prec - 1)),
                  sticky, e + (L - prec), prec)

\* The float of prec bits nearest to s * (M + f) * 2^e, ties to even, where
\* 0 <= f < 1 and sticky says whether f > 0 (then M has more than prec bits).
FRound(s, M, sticky, e, prec) == FRoundL(s, M, sticky, e, prec, BBitLen(M))

FromInt(n) ==
    FRound(IF n < 0 THEN -1 ELSE 1, BFromInt(IF n < 0 THEN 0 - n ELSE n), FALSE, 0, FPrec)

\* 10^k as a multi-limb natural, k <= 18
BPow10(k) == BMul(BFromInt(10^Min(k, 9)), BFromInt(10^Max(k - 9, 0)))

\* qr = <<quotient, remainder>> of a division carried to nb fractional bits
FRoundQuot(s, qr, e, prec) == FRound(s, qr[1], qr[2] # <<>>, e, prec)

\* sg * a / c for c = 10^k, a >= 0
FromDecC(sg, a, k, c, nb) ==
    FRoundQuot(sg, BDivBits(BFromInt(IF k <= 9 THEN a \div 10^k ELSE 0),
                            BFromInt(IF k <= 9 THEN a % 10^k ELSE a), c, nb),
               0 - nb, FPrec)

\* float("n e-k"): the float nearest to the decimal n / 10^k, 0 <= k <= 18
FromDec(n, k) ==
    IF k = 0 \/ n = 0 \/ (k <= 9 /\ n % 10^Min(k, 9) = 0)
    THEN FromInt(n \div 10^(IF n = 0 THEN 0 ELSE Min(k, 9)))
    ELSE FromDecC(IF n < 0 THEN -1 ELSE 1, IF n < 0 THEN 0 - n ELSE n, k, BPow10(k),
                  3 + FPrec + BBitLen(BPow10(k)))

FMulP(x, y, prec) ==
    IF FIsZero(x) \/ FIsZero(y) THEN FZero
    ELSE FRound(x[1] * y[1], BMul(x[2], y[2]), FALSE, x[3] + y[3], prec)

\* x / y for x # 0, y # 0; ge says whether x[2] >= y[2]
FDivGe(x, y, ge, prec) ==
    FRoundQuot(x[1] * y[1],
               BDivBits(IF ge THEN BOne ELSE <<>>,
                        IF ge THEN BSub(x[2], y[2]) ELSE x[2], y[2], prec + 2),
               x[3] - y[3] - (prec + 2), prec)

\* x / y for y # 0
FDivP(x, y, prec) ==
    IF FIsZero(x) THEN FZero ELSE FDivGe(x, y, BCmp(x[2], y[2]) >= 0, prec)

FMul(x, y) == FMulP(x, y, FPrec)

FDiv(x, y) == FDivP(x, y, FPrec)

\* hi = x[2] * 2^(x[3] - y[3]), c = hi compared with y[2]
FAddHi(x, y, hi, c) ==
    FRound(IF x[1] = y[1] \/ c >= 0 THEN x[1] ELSE y[1],
           IF x[1] = y[1] THEN BAdd(hi, y[2])
           ELSE IF c >= 0 THEN BSub(hi, y[2]) ELSE BSub(y[2], hi),
           FALSE, y[3], FPrec)

FAddShifted(x, y, hi) == FAddHi(x, y, hi, BCmp(hi, y[2]))

\* x + y, both nonzero, x[3] >= y[3]
FAddOrdered(x, y) ==
    IF x[3] - y[3] > FPrec + 11 THEN x
    ELSE FAddShifted(x, y, BShl(x[2], x[3] - y[3]))

FAdd(x, y) ==
    IF FIsZero(x) THEN y
    ELSE IF FIsZero(y) THEN x
    ELSE FAddOrdered(IF x[3] >= y[3] THEN x ELSE y, IF x[3] >= y[3] THEN y ELSE x)

FSub(x, y) == FAdd(x, FNeg(y))

FSign(x) == IF FIsZero(x) THEN 0 ELSE x[1]

\* -1, 0, 1 as x < y, x = y, x > y
FCmp(x, y) ==
    IF FSign(x) # FSign(y) THEN (IF FSign(x) < FSign(y) THEN -1 ELSE 1)
    ELSE IF FSign(x) = 0 THEN 0
    ELSE IF x[3] # y[3] THEN (IF x[3] > y[3] THEN x[1] ELSE 0 - x[1])
    ELSE x[1] * BCmp(x[2], y[2])

FLt(x, y) == FCmp(x, y) < 0

FLe(x, y) == FCmp(x, y) <= 0

FGt(x, y) == FCmp(x, y) > 0

FGe(x, y) == FCmp(x, y) >= 0

FOne == FromInt(1)

\* x^j for 2 <= j <= 7, given x2 = x^2, x3 = x^3, x4 = x^4
FPow8With(x, x2, x3, x4, j, prec) ==
    IF j = 2 THEN x2
    ELSE IF j = 3 THEN x3
    ELSE IF j = 4 THEN x4
    ELSE FMulP(x4, IF j = 5 THEN x ELSE IF j = 6 THEN x2 ELSE x3, prec)

FPow8Sq(x, x2, j, prec) ==
    IF FIsZero(x2) THEN FZero
    ELSE FPow8With(x, x2, FMulP(x2, x, prec), FMulP(x2, x2, prec), j, prec)

\* x^j for 0 <= j <= 7 at prec bits
FPow8(x, j, prec) ==
    IF j = 0 THEN FRound(1, BOne, FALSE, 0, prec)
    ELSE IF j = 1 THEN x
    ELSE FPow8Sq(x, FMulP(x, x, prec), j, prec)

\* x^2, x taken first
FSqP(x, prec) == IF FIsZero(x) THEN FZero ELSE FMulP(x, x, prec)

\* x * y, x taken first
FMulFirstP(x, y, prec) == IF FIsZero(x) THEN FZero ELSE FMulP(x, y, prec)

\* x^n for 0 <= n < 512 at prec bits, by the octal digits of n:
\* ((x^a)^8 * x^b)^8 * x^c for n = 64a + 8b + c
FPowP(x, n, prec) ==
    FMulFirstP(
      FSqP(FSqP(FSqP(
        FMulFirstP(FSqP(FSqP(FSqP(FPow8(x, n \div 64, prec), prec), prec), prec),
                   FPow8(x, (n \div 8) % 8, prec), prec), prec), prec), prec),
      FPow8(x, n % 8, prec), prec)

\* w of more than FPrec bits, rounded to FPrec bits
FRoundCopy(w) == IF FIsZero(w) THEN FZero ELSE FRound(w[1], w[2], FALSE, w[3], FPrec)

\* 1 / p at PowPrec bits, rounded to FPrec bits; p taken first
FPowInv(p) ==
    IF FIsZero(p) THEN FZero
    ELSE FRoundCopy(FDivP(FRound(1, BOne, FALSE, 0, PowPrec), p, PowPrec))

\* x ** (-n) for x # 0, 1 <= n < 512
FPowNeg(x, n) == FPowInv(FPowP(FRound(x[1], x[2], FALSE, x[3], PowPrec), n, PowPrec))

\* s * (q + f): q the integer part, c the fraction f compared with one half
RoundHalfEven(s, q, c) ==
    s * (BToInt(q) + (IF c > 0 \/ (c = 0 /\ BIsOdd(q)) THEN 1 ELSE 0))

\* M = x[2] * 10^k
RoundDecM(x, M) ==
    IF x[3] >= 0 THEN x[1] * BToInt(BShl(M, x[3]))
    ELSE RoundHalfEven(x[1], BShr(M, 0 - x[3]),
                       BCmp(BLow(M, 0 - x[3]), BPow2((0 - x[3]) - 1)))

\* round(x, k) as the integer n with round(x, k) = float(n / 10^k), 0 <= k <= 4:
\* CPython rounds the exact binary value to k decimals, ties to even.
RoundDec(x, k) == IF FIsZero(x) THEN 0 ELSE RoundDecM(x, BMulSmall(x[2], 10^k))

\* round(x, k) as a float
FRoundDec(x, k) == FromDec(RoundDec(x, k), k)

\* int(x): truncation toward zero
FTrunc(x) ==
    IF FIsZero(x) THEN 0
    ELSE IF x[3] >= 0 THEN x[1] * BToInt(BShl(x[2], x[3]))
    ELSE x[1] * BToInt(BShr(x[2], 0 - x[3]))

-----------------------------------------------------------------------------
(* src/app/metrics.py: amortization_schedule                               *)
(*                                                                         *)
(* A decimal literal n / 10^k is written <<n, k>>; Lit gives its float.    *)
(* A schedule row holds round(x, 2) for each column as the integer number  *)
(* of cents c, standing for the float nearest to c / 100.                  *)

Lit(d) == FromDec(d[1], d[2])

NoRows == <<>>

\* max(v, 0.0)
FMax0(v) == IF FGt(FZero, v) THEN FZero ELSE v

\* The row and the carried state once the month's four amounts are known
AmortRow(m, payment, interest, principal, balance) ==
    [st  |-> [balance |-> balance, payment |-> payment],
     row |-> [month     |-> m,
              payment   |-> RoundDec(payment, 2),
              interest  |-> RoundDec(interest, 2),
              principal |-> RoundDec(principal, 2),
              balance   |-> RoundDec(balance, 2)]]

\* The rest of the loop body once interest and principal are known
AmortSplit(st, m, n, interest, principal) ==
    AmortRow(m,
             IF m = n THEN FAdd(interest, principal) ELSE st.payment,
             interest, principal,
             IF m = n THEN FZero ELSE FMax0(FSub(st.balance, principal)))

\* The loop body with the principal component taken as interest - payment
AmortInterestSwapped(st, m, n, interest) ==
    AmortSplit(st, m, n, interest,
               IF m = n THEN st.balance ELSE FSub(interest, st.payment))

\* The rest of the loop body once interest is known
AmortInterest(st, m, n, interest) ==
    AmortSplit(st, m, n, interest,
               IF m = n THEN st.balance ELSE FSub(st.payment, interest))

\* One pass of the loop body for month m of n; st = [balance, payment]
AmortMonth(st, m, n, r_month) == AmortInterest(st, m, n, FMul(st.balance, r_month))

\* sr = [st, rows] after the pass of the loop for month m
AmortNext(sr, m, n, r_month) ==
    LET one == AmortMonth(sr.st, m, n, r_month)
    IN  [st |-> one.st, rows |-> Append(sr.rows, one.row)]

RECURSIVE AmortRun(_, _, _, _, _, _)
\* The passes for months m .. m + cnt - 1, cnt <= size, size a power of 8:
\* eight runs of size / 8 passes one after the other (the passes are laid
\* out eight wide so that the evaluation stays shallow)
AmortRun(sr, m, cnt, size, n, r_month) ==
    IF cnt = 0 THEN sr
    ELSE IF size = 1 THEN AmortNext(sr, m, n, r_month)
    ELSE LET w  == size \div 8
             s1 == AmortRun(sr, m, Min(cnt, w), w, n, r_month)
             s2 == AmortRun(s1, m + w, Max(0, Min(cnt - w, w)), w, n, r_month)
             s3 == AmortRun(s2, m + 2 * w, Max(0, Min(cnt - 2 * w, w)), w, n, r_month)
             s4 == AmortRun(s3, m + 3 * w, Max(0, Min(cnt - 3 * w, w)), w, n, r_month)
             s5 == AmortRun(s4, m + 4 * w, Max(0, Min(cnt - 4 * w, w)), w, n, r_month)
             s6 == AmortRun(s5, m + 5 * w, Max(0, Min(cnt - 5 * w, w)), w, n, r_month)
             s7 == AmortRun(s6, m + 6 * w, Max(0, Min(cnt - 6 * w, w)), w, n, r_month)
         IN  IF /\ Len(s1.rows) >= 0 /\ Len(s2.rows) >= 0 /\ Len(s3.rows) >= 0
                /\ Len(s4.rows) >= 0 /\ Len(s5.rows) >= 0 /\ Len(s6.rows) >= 0
                /\ Len(s7.rows) >= 0
             THEN AmortRun(s7, m + 7 * w, Max(0, Min(cnt - 7 * w, w)), w, n, r_month)
             ELSE sr

\* for m in range(1, n + 1), n <= 512
AmortLoop(st, n, r_month) ==
    AmortRun([st |-> st, rows |-> NoRows], 1, n, 512, n, r_month)

\* den = 1 - (1 + r_month) ** (-n)
LevelPaymentDen(P, r_month, den) ==
    IF FIsZero(den) THEN [exc |-> "ZeroDivisionError", v |-> FZero]
    ELSE [exc |-> "none", v |-> FDiv(FMul(P, r_month), den)]

\* base = 1 + r_month; 0.0 ** (-n) raises ZeroDivisionError
LevelPaymentBase(P, r_month, n, base) ==
    IF FIsZero(base) THEN [exc |-> "ZeroDivisionError", v |-> FZero]
    ELSE LevelPaymentDen(P, r_month, FSub(FOne, FPowNeg(base, n)))

\* payment = P * r_month / (1 - (1 + r_month) ** (-n)), or the exception raised
LevelPayment(P, r_month, n) ==
    LevelPaymentBase(P, r_month, n, FAdd(FOne, r_month))

\* The loop and the returned rows once the level payment is known; pay is
\* [exc, v], the payment or the exception raised in computing it
AmortWithPayment(P, n, r_month, pay) ==
    IF pay.exc # "none" THEN [exc |-> pay.exc, rows |-> NoRows]
    ELSE [exc  |-> "none",
          rows |-> AmortLoop([balance |-> P, payment |-> pay.v], n, r_month).rows]

AmortWithRate(P, n, r_month) ==
    AmortWithPayment(P, n, r_month,
                     IF FIsZero(r_month)
                     THEN [exc |-> "none", v |-> FDiv(P, FromInt(n))]
                     ELSE LevelPayment(P, r_month, n))

\* amortization_schedule with the term test written n < 0: a term of 0 then
\* reaches P / n, or 1 - (1 + r_month) ** 0 = 0.0 as the divisor
AmortTermZeroAllowed(P, annual_rate_decimal, n) ==
    IF n < 0 THEN [exc |-> "ValueError", rows |-> NoRows]
    ELSE IF n = 0 THEN [exc |-> "ZeroDivisionError", rows |-> NoRows]
    ELSE AmortWithRate(P, n, IF FIsZero(annual_rate_decimal) THEN FZero
                             ELSE FDiv(annual_rate_decimal, FromInt(12)))

\* amortization_schedule(loan_amount, annual_rate_decimal, term_months):
\* [exc, rows], exc the exception raised ("none": the rows are returned)
amortization_schedule(P, annual_rate_decimal, n) ==
    IF n <= 0 THEN [exc |-> "ValueError", rows |-> NoRows]
    ELSE AmortWithRate(P, n, IF FIsZero(annual_rate_decimal) THEN FZero
                             ELSE FDiv(annual_rate_decimal, FromInt(12)))

-----------------------------------------------------------------------------
(* Calls of amortization_schedule                                          *)

NoResult == [exc |-> "pending"]

MaxTerm == 6

AmortPrincipals == {<<1000, 0>>, <<240000, 0>>, <<60, 0>>, <<1234567, 2>>, <<0, 0>>}
AmortRates == {<<0, 0>>, <<5, 2>>, <<55, 3>>, <<12, 2>>, <<1, 17>>, <<12, 1>>, <<30, 0>>, <<-5, 2>>}
AmortTerms == (-1 .. MaxTerm) \cup {12, 300}

AmortArgs == [loan_amount : AmortPrincipals, annual_rate_decimal : AmortRates,
              term_months : AmortTerms]

InitAmort ==
    /\ pc = "call"
    /\ op = "amortization_schedule"
    /\ args \in AmortArgs
    /\ result = NoResult

CallAmort ==
    /\ pc = "call"
    /\ op = "amortization_schedule"
    /\ result' = amortization_schedule(Lit(args.loan_amount),
                                       Lit(args.annual_rate_decimal), args.term_months)
    /\ pc' = "done"
    /\ UNCHANGED <<op, args>>

NextAmort == CallAmort

SpecAmort == InitAmort /\ [][NextAmort]_vars

AmortDone == pc = "done" /\ op = "amortization_schedule"
AmortReturned == AmortDone /\ result.exc = "none"

\* C2: for principal > 0, 0 <= rate < 1 and term_months n >= 1 the call returns
\* exactly n rows, numbered 1..n in order, and the last row's balance is 0.0.
C2_RowsAndFinalZero ==
    (/\ AmortDone
     /\ args.loan_amount[1] > 0
     /\ args.annual_rate_decimal[1] >= 0
     /\ FLt(Lit(args.annual_rate_decimal), FOne)
     /\ args.term_months >= 1)
    => /\ result.exc = "none"
       /\ Len(result.rows) = args.term_months
       /\ \A i \in 1 .. Len(result.rows) : result.rows[i].month = i
       /\ result.rows[Len(result.rows)].balance = 0

\* C3: in every returned row the stored payment equals the stored interest plus
\* the stored principal, all three being amounts rounded to 2 decimal places.
C3_PaymentIsInterestPlusPrincipal ==
    AmortReturned
    => \A i \in 1 .. Len(result.rows) :
           result.rows[i].payment = result.rows[i].interest + result.rows[i].principal

\* C4: for principal > 0, rate >= 0 and term_months >= 1 the balance column of
\* the returned schedule never increases from one month to the next and is
\* never negative.
C4_BalanceNonIncreasing ==
    (/\ AmortReturned
     /\ args.loan_amount[1] > 0
     /\ args.annual_rate_decimal[1] >= 0
     /\ args.term_months >= 1)
    => /\ \A i \in 1 .. Len(result.rows) : result.rows[i].balance >= 0
       /\ \A i \in 1 .. Len(result.rows) - 1 :
              result.rows[i + 1].balance <= result.rows[i].balance

\* A returned schedule of several months at a positive rate whose balance goes
\* down strictly from month to month until it reaches zero.
C4_Witness ==
    /\ AmortReturned
    /\ args.loan_amount[1] > 0
    /\ args.annual_rate_decimal[1] > 0
    /\ Len(result.rows) >= 3
    /\ \A i \in 1 .. Len(result.rows) - 1 :
           /\ result.rows[i + 1].balance < result.rows[i].balance
           /\ result.rows[i].balance > 0

\* C12: the call fails with the invalid-term error (ValueError), producing no
\* rows, whenever term_months <= 0, and never fails with it when term_months >= 1.
C12_InvalidTermError ==
    AmortDone
    => /\ (args.term_months <= 0) <=> (result.exc = "ValueError")
       /\ result.exc = "ValueError" => result.rows = NoRows

\* A call with term_months = 0 has ended in the invalid-term error.
C12_Witness ==
    AmortDone /\ args.term_months = 0 /\ result.exc = "ValueError" /\ result.rows = NoRows

-----------------------------------------------------------------------------
(* Text and Python values.                                                 *)
(*                                                                         *)
(* A text is the sequence of its characters, each a one-character string.  *)
(* A decimal <<n, k>> (n / 10^k) is kept normalised: k = 0 or n not a      *)
(* multiple of 10.  Python values are records tagged by type; a float is   *)
(* held as the normalised decimal d whose nearest binary64 it is (Lit(d)), *)
(* which for decimals of at most 15 digits is the shortest decimal that    *)
(* reads back as that float, i.e. the digits repr() prints.                *)

Chars(s) == <<>> \o [i \in 1 .. Len(s) |-> SubSeq(s, i, i)]

DigitChars == Chars("0123456789")

IsDigit(c) == c \in {"0", "1", "2", "3", "4", "5", "6", "7", "8", "9"}

DigitVal(c) == CHOOSE d \in 0 .. 9 : DigitChars[d + 1] = c

\* U+00A0
NoBreakSpace == " "

\* str.strip() takes the no-break space off as well
Whitespace == {" ", "\t", "\n", "\r", NoBreakSpace}

\* str.strip()
Strip(cs) ==
    LET keep == {i \in 1 .. Len(cs) : cs[i] \notin Whitespace}
    IN  IF keep = {} THEN <<>>
        ELSE SubSeq(cs, CHOOSE i \in keep : \A j \in keep : i <= j,
                        CHOOSE i \in keep : \A j \in keep : j <= i)

\* str.replace(c, "") for every c of gone
Remove(cs, gone) == SelectSeq(cs, LAMBDA c : c \notin gone)

AllDigits(cs) == \A i \in 1 .. Len(cs) : IsDigit(cs[i])

\* int() of a text of at most 9 digits
NatOf(cs) ==
    SeqSum([i \in 1 .. Len(cs) |-> DigitVal(cs[i]) * 10^(Len(cs) - i)], 1, Len(cs))

\* Number of decimal digits of a >= 0
NumDigits(a) ==
    IF a >= 10^9 THEN 10
    ELSE CHOOSE L \in 1 .. 9 : a < 10^L /\ (L = 1 \/ a >= 10^(L - 1))

\* str() of a natural
NatChars(a) ==
    <<>> \o [i \in 1 .. NumDigits(a) |-> DigitChars[((a \div 10^(NumDigits(a) - i)) % 10) + 1]]

Abs(n) == IF n < 0 THEN 0 - n ELSE n

\* t trailing zeros of n taken off, t <= k
DecDrop(n, k, t) == <<n \div 10^t, k - t>>

\* n / 10^k normalised, k >= 0
DecNorm(n, k) ==
    IF n = 0 THEN <<0, 0>>
    ELSE DecDrop(n, k, CHOOSE t \in 0 .. Min(k, 9) :
                          /\ Abs(n) % 10^t = 0
                          /\ (t = Min(k, 9) \/ Abs(n) % 10^(t + 1) # 0))

\* n * 10^x as a normalised decimal, any sign of x
DecScale(n, x) == IF x >= 0 THEN <<n * 10^x, 0>> ELSE DecNorm(n, 0 - x)

PyNone == [t |-> "None"]
PyBool(b) == [t |-> "bool", b |-> b]
PyInt(n) == [t |-> "int", n |-> n]
PyFloat(d) == [t |-> "float", d |-> d]
PyNan == [t |-> "nan"]
PyInf(sign) == [t |-> "inf", sign |-> sign]
PyStr(cs) == [t |-> "str", s |-> cs]
PyText(s) == PyStr(Chars(s))

\* The call raised ValueError
Raised == [t |-> "ValueError"]

\* int, or float other than nan and the infinities
IsNumber(v) == v.t \in {"int", "float"}

\* The decimal of a number
DecOf(v) == IF v.t = "int" THEN <<v.n, 0>> ELSE v.d

\* a == b between values
PyEq(a, b) ==
    IF IsNumber(a) /\ IsNumber(b) THEN DecOf(a) = DecOf(b)
    ELSE IF a.t = "nan" \/ b.t = "nan" THEN FALSE
    ELSE a = b

\* str.lower() on one character
UpperLetters == {SubSeq("ABCDEFGHIJKLMNOPQRSTUVWXYZ", i, i) : i \in 1 .. 26}

LowerChar(c) ==
    IF c \in UpperLetters
    THEN SubSeq("abcdefghijklmnopqrstuvwxyz",
                CHOOSE i \in 1 .. 26 : SubSeq("ABCDEFGHIJKLMNOPQRSTUVWXYZ", i, i) = c,
                CHOOSE i \in 1 .. 26 : SubSeq("ABCDEFGHIJKLMNOPQRSTUVWXYZ", i, i) = c)
    ELSE c

Lower(cs) == <<>> \o [i \in 1 .. Len(cs) |-> LowerChar(cs[i])]

\* An optional sign followed by digits, at least one: its integer value, else Raised
SignedNat(cs) ==
    IF cs # <<>> /\ cs[1] \in {"-", "+"}
    THEN IF Len(cs) >= 2 /\ AllDigits(Tail(cs))
         THEN PyInt(IF cs[1] = "-" THEN 0 - NatOf(Tail(cs)) ELSE NatOf(Tail(cs)))
         ELSE Raised
    ELSE IF cs # <<>> /\ AllDigits(cs) THEN PyInt(NatOf(cs)) ELSE Raised

\* float() of digits with at most one point, scaled by 10^x, with the sign sg
FloatOfMantissa(sg, mant, x) ==
    LET dots == {i \in 1 .. Len(mant) : mant[i] = "."}
        digs == Remove(mant, {"."})
        frac == IF dots = {} THEN 0 ELSE Len(mant) - (CHOOSE i \in dots : TRUE)
    IN  IF Cardinality(dots) <= 1 /\ digs # <<>> /\ AllDigits(digs)
        THEN PyFloat(DecScale(sg * NatOf(digs), x - frac))
        ELSE Raised

\* float() of unsigned text: mantissa and optional exponent, or inf / nan
FloatOfUnsigned(sg, body) ==
    LET es == {i \in 1 .. Len(body) : body[i] \in {"e", "E"}}
        ep == CHOOSE i \in es : \A j \in es : i <= j
        x  == SignedNat(SubSeq(body, ep + 1, Len(body)))
    IN  IF Lower(body) = Chars("nan") THEN PyNan
        ELSE IF Lower(body) \in {Chars("inf"), Chars("infinity")} THEN PyInf(sg)
        ELSE IF es = {} THEN FloatOfMantissa(sg, body, 0)
        ELSE IF x = Raised THEN Raised
        ELSE FloatOfMantissa(sg, SubSeq(body, 1, ep - 1), x.n)

FloatOfStripped(s) ==
    IF s # <<>> /\ s[1] \in {"-", "+"}
    THEN FloatOfUnsigned(IF s[1] = "-" THEN -1 ELSE 1, Tail(s))
    ELSE FloatOfUnsigned(1, s)

\* float(text): a float, nan, an infinity, or Raised
FloatOfText(cs) == FloatOfStripped(Strip(cs))

\* Whether cs matches -?\d+ in full
IsIntText(cs) ==
    IF cs # <<>> /\ cs[1] = "-" THEN Len(cs) >= 2 /\ AllDigits(Tail(cs))
    ELSE cs # <<>> /\ AllDigits(cs)

\* Whether cs matches -?\d+\.\d+ in full
IsDecimalText(cs) ==
    \E i \in 2 .. Len(cs) - 1 :
        /\ cs[i] = "."
        /\ IsIntText(SubSeq(cs, 1, i - 1))
        /\ AllDigits(SubSeq(cs, i + 1, Len(cs)))

\* int(text) for a text matching -?\d+
IntOfText(cs) == IF cs[1] = "-" THEN 0 - NatOf(Tail(cs)) ELSE NatOf(cs)

\* repr() of the digits ds of a float with k decimals, exponent x = Len(ds) - 1 - k
FloatDigitsText(ds, k, x) ==
    IF x >= -4 /\ x < 16
    THEN IF k = 0 THEN ds \o Chars(".0")
         ELSE IF Len(ds) > k
              THEN SubSeq(ds, 1, Len(ds) - k) \o <<".">> \o SubSeq(ds, Len(ds) - k + 1, Len(ds))
              ELSE Chars("0.") \o [i \in 1 .. k - Len(ds) |-> "0"] \o ds
    ELSE (IF Len(ds) = 1 THEN ds ELSE <<ds[1], ".">> \o Tail(ds))
         \o (IF x < 0 THEN Chars("e-") ELSE Chars("e+"))
         \o (IF Abs(x) < 10 THEN <<"0">> ELSE <<>>) \o NatChars(Abs(x))

\* repr() of a float (the sign of a zero is not kept)
StrOfFloat(d) ==
    (IF d[1] < 0 THEN <<"-">> ELSE <<>>)
    \o FloatDigitsText(NatChars(Abs(d[1])), d[2], NumDigits(Abs(d[1])) - 1 - d[2])

\* str(v), v not None
StrOf(v) ==
    CASE v.t = "str" -> v.s
      [] v.t = "int" -> (IF v.n < 0 THEN <<"-">> ELSE <<>>) \o NatChars(Abs(v.n))
      [] v.t = "float" -> StrOfFloat(v.d)
      [] v.t = "bool" -> IF v.b THEN Chars("True") ELSE Chars("False")
      [] v.t = "nan" -> Chars("nan")
      [] v.t = "inf" -> IF v.sign < 0 THEN Chars("-inf") ELSE Chars("inf")

-----------------------------------------------------------------------------
(* The two coercion helpers: _to_float_safe (src/app/metrics.py) and       *)
(* _to_number (src/app/parser_helper.py).                                  *)

\* Positions where -?\d can start matching
NumStarts(cs) ==
    {i \in 1 .. Len(cs) :
        \/ IsDigit(cs[i])
        \/ cs[i] = "-" /\ i < Len(cs) /\ IsDigit(cs[i + 1])}

First(S) == CHOOSE i \in S : \A j \in S : i <= j

Last(S) == CHOOSE i \in S : \A j \in S : j <= i

\* End of the longest run of characters of class starting at position p
RunEnd(cs, p, class) ==
    Last({j \in p - 1 .. Len(cs) : \A i \in p .. j : cs[i] \in class})

DigitSet == {"0", "1", "2", "3", "4", "5", "6", "7", "8", "9"}

\* First digit position of a match starting at i
DigitsFrom(cs, i) == IF cs[i] = "-" THEN i + 1 ELSE i

\* _num_rx.search(cs).group(1): leftmost match of (-?\d[\d,\.]*)
NumRxMatch(cs) ==
    SubSeq(cs, First(NumStarts(cs)),
           RunEnd(cs, DigitsFrom(cs, First(NumStarts(cs))), DigitSet \cup {",", "."}))

\* End of -?\d+(\.\d+)? given the end e of its \d+
FracEnd(cs, e) ==
    IF e + 1 < Len(cs) /\ cs[e + 1] = "." /\ IsDigit(cs[e + 2])
    THEN RunEnd(cs, e + 2, DigitSet)
    ELSE e

\* re.search(r"-?\d+(\.\d+)?", cs).group(0)
FloatRxMatch(cs) ==
    SubSeq(cs, First(NumStarts(cs)),
           FracEnd(cs, RunEnd(cs, DigitsFrom(cs, First(NumStarts(cs))), DigitSet)))

\* float(v) for an int or float v
FloatOfNumber(v) == IF v.t = "int" THEN PyFloat(<<v.n, 0>>) ELSE v

IsIntOrFloat(v) == v.t \in {"int", "float", "nan", "inf"}

\* float(s), and on failure the first numeric substring (lines 65-75)
ToFloatParsed(s, f) ==
    IF f # Raised THEN f
    ELSE IF NumStarts(s) = {} THEN PyNone
    ELSE FloatOfText(FloatRxMatch(s))

\* Lines 61-66
ToFloatCleaned(s) == ToFloatParsed(s, FloatOfText(s))

\* Lines 57-63
ToFloatText(s) ==
    IF s = <<>> THEN PyNone
    ELSE ToFloatCleaned(Remove(Strip(Remove(s, {" ", ",", "£", "$"})), {"%"}))

to_float_safe(v) ==
    IF v.t = "None" THEN PyNone
    ELSE IF IsIntOrFloat(v) THEN FloatOfNumber(v)
    ELSE ToFloatText(Strip(StrOf(v)))

\* Lines 78-87 of parser_helper.py: the matched numeric substring num
ToNumberOfMatch(s, num) ==
    IF \E i \in 1 .. Len(num) : num[i] = "."
    THEN IF FloatOfText(num) = Raised THEN PyStr(Strip(s)) ELSE FloatOfText(num)
    ELSE PyInt(IntOfText(num))

\* Lines 66-88: s after the quotes are taken off
ToNumberClean(s, s_clean) ==
    IF IsIntText(s_clean) THEN PyInt(IntOfText(s_clean))
    ELSE IF IsDecimalText(s_clean) THEN FloatOfText(s_clean)
    ELSE IF NumStarts(s_clean) # {}
         THEN ToNumberOfMatch(s, Remove(NumRxMatch(s_clean), {","}))
         ELSE PyStr(Strip(s))

ToNumberUnquoted(s) == ToNumberClean(s, Strip(Remove(s, {",", "£", "$", "%"})))

\* Lines 59-64
ToNumberText(s) ==
    IF s = <<>> THEN PyNone
    ELSE IF s[1] = s[Len(s)] /\ s[1] \in {"\"", "'"}
         THEN ToNumberUnquoted(Strip(SubSeq(s, 2, Len(s) - 1)))
         ELSE ToNumberUnquoted(s)

to_number(v) == IF v.t = "None" THEN PyNone ELSE ToNumberText(Strip(StrOf(v)))

-----------------------------------------------------------------------------
(* Calls of the coercion helpers: coerce(x), then coerce of what it        *)
(* returned.                                                               *)

Pending == [t |-> "pending"]

CoerceTexts ==
    {"0.00001", "-0.00002", "1e5", ".5", "1.2.3", "5.", "- 5", "£1,200.50",
     "12%", "abc", "  ", "'8.5'", "rate 9.5 pct", "-", "-.5", "1,000",
     "x-3.25y", "0.0001", "250000", "1e-05", "$1.5.2", "12 months", "-12",
     "0.50", "a1b2", "inf", "1e-7", "9.5%", "0", "007", "5-3", "True",
     "0.000123", "123456.789", "", "nan"}

CoerceInputs ==
    {PyText(s) : s \in CoerceTexts}
    \cup {PyInt(n) : n \in {-3, 0, 5, 250000}}
    \cup {PyFloat(d) : d \in {<<1, 5>>, <<1, 4>>, <<25, 1>>, <<100000, 0>>,
                              <<-2, 5>>, <<123, 9>>, <<123456725, 2>>}}
    \cup {PyNone, PyBool(TRUE), PyNan, PyInf(1)}

CoerceOps == {"_to_float_safe", "_to_number"}

Coerce(f, v) == IF f = "_to_float_safe" THEN to_float_safe(v) ELSE to_number(v)

InitCoerce ==
    /\ pc = "call"
    /\ op \in CoerceOps
    /\ args \in {[v |-> x] : x \in CoerceInputs}
    /\ result = [first |-> Pending, second |-> Pending]

\* y = coerce(x)
CoerceOnce ==
    /\ pc = "call"
    /\ pc' = "once"
    /\ result' = [first |-> Coerce(op, args.v), second |-> Pending]
    /\ UNCHANGED <<op, args>>

\* coerce(y)
CoerceAgain ==
    /\ pc = "once"
    /\ pc' = "done"
    /\ result' = [result EXCEPT !.second = Coerce(op, result.first)]
    /\ UNCHANGED <<op, args>>

NextCoerce == CoerceOnce \/ CoerceAgain

SpecCoerce == InitCoerce /\ [][NextCoerce]_vars

\* C11: for both helpers, whenever coerce(x) returns a number (an int or a
\* finite float), coerce(coerce(x)) == coerce(x).
C11_CoerceIdempotent ==
    pc = "done" /\ IsNumber(result.first) => PyEq(result.second, result.first)

-----------------------------------------------------------------------------
(* Key labels (src/app/parser_helper.py, lines 7-52).                      *)

\* Whether b occurs in a (b in a)
Contains(a, b) ==
    \E i \in 0 .. Len(a) - Len(b) : SubSeq(a, i + 1, i + Len(b)) = b

\* str.replace(c, by) for the characters c of from
ReplaceChars(cs, from, by) ==
    <<>> \o [i \in 1 .. Len(cs) |-> IF cs[i] \in from THEN by ELSE cs[i]]

\* \w
WordClass ==
    {SubSeq("abcdefghijklmnopqrstuvwxyzABCDEFGHIJKLMNOPQRSTUVWXYZ0123456789_", i, i) : i \in 1 .. 63}

IsWord(c) == c \in WordClass

\* _variant_to_canonical in its insertion order: a variant that several
\* canonical names list keeps the place of its first insertion and the
\* canonical name of its last
VariantToCanonical ==
    << <<"project cost", "project_cost">>,
       <<"total project cost", "project_cost_alt">>,
       <<"total cost", "total_cost">>,
       <<"totalprojectcost", "total_cost">>,
       <<"interest rate annual", "interest_rate_annual">>,
       <<"interest rate (annual)", "interest_rate_annual">>,
       <<"interest rate", "interest_rate_annual">>,
       <<"rate", "interest_rate_annual">>,
       <<"annual rate", "interest_rate_annual">>,
       <<"loan term months", "term_months">>,
       <<"term months", "term_months">>,
       <<"term", "term_months">>,
       <<"loan term", "loan_term_months">>,
       <<"loan amount", "loan_amount">>,
       <<"loan", "loan_amount">>,
       <<"requested loan", "loan_amount">>,
       <<"amount requested", "loan_amount">>,
       <<"property value", "property_value">>,
       <<"property value estimate", "property_value">>,
       <<"property", "property_value">>,
       <<"income", "income">>,
       <<"annual income", "income">>,
       <<"borrower", "borrower">>,
       <<"applicant", "borrower">>,
       <<"name", "borrower">>,
       <<"arv", "arv">>,
       <<"after repair value", "arv">>,
       <<"purchase price", "purchase_price">>,
       <<"refurbishment budget", "refurbishment_budget">>,
       <<"refurb budget", "refurbishment_budget">>,
       <<"refurbishment", "refurbishment_budget">>,
       <<"dscr", "dscr">>,
       <<"monthly rent", "monthly_rent">>,
       <<"rent monthly", "monthly_rent">>,
       <<"operating costs", "operating_costs">>,
       <<"operating expenses", "operating_costs">> >>

\* The variants whose text is in n or holds n (line 49)
VariantHits(n) ==
    {i \in 1 .. Len(VariantToCanonical) :
        \/ Contains(n, Chars(VariantToCanonical[i][1]))
        \/ Contains(Chars(VariantToCanonical[i][1]), n)}

\* Lines 48-52, n the normalised label
NormalizeWith(label, hits) ==
    IF hits # {} THEN Chars(VariantToCanonical[First(hits)][2])
    ELSE Lower(<<>> \o [i \in 1 .. Len(Strip(label)) |->
                          IF IsWord(Strip(label)[i]) THEN Strip(label)[i] ELSE "_"])

normalize_key_label(label) ==
    IF label = <<>> THEN <<>>
    ELSE NormalizeWith(label, VariantHits(ReplaceChars(Lower(Strip(label)), {"_", "-"}, " ")))

-----------------------------------------------------------------------------
(* The three patterns extract_embedded_kv scans a text with.  A match is   *)
(* [key, val, end]: the two groups and the position of its last character; *)
(* NoMatch has end = 0.                                                    *)

NoMatch == [end |-> 0]

\* The character at position i, "" outside the text
At(cs, i) == IF i >= 1 /\ i <= Len(cs) THEN cs[i] ELSE ""

Quotes == {"\"", "'"}

Letters == {SubSeq("abcdefghijklmnopqrstuvwxyzABCDEFGHIJKLMNOPQRSTUVWXYZ", i, i) : i \in 1 .. 52}

\* [A-Za-z0-9_ \(\)\-]
KeyClass == Letters \cup DigitSet \cup {"_", " ", "(", ")", "-"}

\* [0-9.\-]
JsonNumClass == DigitSet \cup {".", "-"}

\* [0-9,\.\-]
InlineNumClass == DigitSet \cup {",", ".", "-"}

\* [^\n\r,{}]
IsValChar(c) == c # "" /\ c \notin {"\n", "\r", ",", "{", "}"}

\* Position after \s* matched from p
SkipSpace(cs, p) == RunEnd(cs, p, Whitespace) + 1

\* \b at position p
WordBoundary(cs, p) ==
    (At(cs, p - 1) # "" /\ IsWord(At(cs, p - 1))) # (At(cs, p) # "" /\ IsWord(At(cs, p)))

\* _json_kv_rx, the value starting at v
JsonValued(cs, i, q, v) ==
    IF At(cs, v) = "\"" /\ \E j \in v + 1 .. Len(cs) : cs[j] = "\""
    THEN IF \E j \in v + 1 .. First({j \in v + 1 .. Len(cs) : cs[j] = "\""}) : cs[j] = "\n"
         THEN NoMatch
         ELSE [key |-> SubSeq(cs, i + 1, q - 1),
               val |-> SubSeq(cs, v, First({j \in v + 1 .. Len(cs) : cs[j] = "\""})),
               end |-> First({j \in v + 1 .. Len(cs) : cs[j] = "\""})]
    ELSE IF At(cs, v) \in JsonNumClass
    THEN [key |-> SubSeq(cs, i + 1, q - 1),
          val |-> SubSeq(cs, v, RunEnd(cs, v, JsonNumClass)),
          end |-> RunEnd(cs, v, JsonNumClass)]
    ELSE NoMatch

\* _json_kv_rx, the key closed by the quote at q
JsonKeyed(cs, i, q) ==
    IF q >= i + 2 /\ At(cs, SkipSpace(cs, q + 1)) = ":"
    THEN JsonValued(cs, i, q, SkipSpace(cs, SkipSpace(cs, q + 1) + 1))
    ELSE NoMatch

\* _json_kv_rx matched at position i:  "([^"]+)"\s*:\s*(".*?"|[0-9.\-]+)
JsonAt(cs, i) ==
    IF cs[i] = "\"" /\ \E j \in i + 1 .. Len(cs) : cs[j] = "\""
    THEN JsonKeyed(cs, i, First({j \in i + 1 .. Len(cs) : cs[j] = "\""}))
    ELSE NoMatch

\* _kv_rx: position of the one character the lazy value group takes, 0 if
\* none; c is the position of [:=] and w the position after the \s* behind it
KvValueAt(cs, c, w) ==
    IF At(cs, w) \in Quotes /\ IsValChar(At(cs, w + 1)) THEN w + 1
    ELSE IF IsValChar(At(cs, w)) THEN w
    ELSE IF \E j \in c + 1 .. w - 1 : cs[j] \notin {"\n", "\r"}
         THEN Last({j \in c + 1 .. w - 1 : cs[j] \notin {"\n", "\r"}})
         ELSE 0

\* _kv_rx: position of [:=] behind a key ending before r, 0 if none
KvSepAt(cs, r) ==
    IF At(cs, SkipSpace(cs, IF At(cs, r) \in Quotes THEN r + 1 ELSE r)) \in {":", "="}
    THEN SkipSpace(cs, IF At(cs, r) \in Quotes THEN r + 1 ELSE r)
    ELSE 0

\* _kv_rx: whether the pattern behind the key matches from r
KvRestOk(cs, r) ==
    KvSepAt(cs, r) > 0 /\ KvValueAt(cs, KvSepAt(cs, r), SkipSpace(cs, KvSepAt(cs, r) + 1)) > 0

\* _kv_rx: the match with key cs[ks .. ke] and value character at vp
KvMatch(cs, ks, ke, vp) ==
    [key |-> SubSeq(cs, ks, ke),
     val |-> <<cs[vp]>>,
     end |-> IF At(cs, vp + 1) \in Quotes THEN vp + 1 ELSE vp]

\* _kv_rx: the lazy key cs[ks .. ke] is the shortest the rest matches behind
KvKeyed(cs, ks, ends) ==
    IF ends = {} THEN NoMatch
    ELSE KvMatch(cs, ks, First(ends),
                 KvValueAt(cs, KvSepAt(cs, First(ends) + 1),
                           SkipSpace(cs, KvSepAt(cs, First(ends) + 1) + 1)))

\* _kv_rx with the key starting at ks
KvFrom(cs, ks) ==
    IF WordBoundary(cs, ks)
    THEN KvKeyed(cs, ks, {ke \in ks .. RunEnd(cs, ks, KeyClass) : KvRestOk(cs, ke + 1)})
    ELSE NoMatch

\* _kv_rx matched at position i
KvAt(cs, i) == KvFrom(cs, IF cs[i] \in Quotes THEN i + 1 ELSE i)

\* The inline pattern: position of the number behind a key ending before r, 0 if none
InlineNumAt(cs, r) ==
    IF /\ At(cs, SkipSpace(cs, r)) = ":"
       /\ At(cs, SkipSpace(cs, SkipSpace(cs, r) + 1)) \in InlineNumClass
    THEN SkipSpace(cs, SkipSpace(cs, r) + 1)
    ELSE 0

InlineMatch(cs, i, ke, v) ==
    [key |-> SubSeq(cs, i, ke),
     val |-> SubSeq(cs, v, RunEnd(cs, v, InlineNumClass)),
     end |-> RunEnd(cs, v, InlineNumClass)]

InlineKeyed(cs, i, ends) ==
    IF ends = {} THEN NoMatch
    ELSE InlineMatch(cs, i, First(ends), InlineNumAt(cs, First(ends) + 1))

\* The inline pattern matched at position i:  ([A-Za-z0-9_ \(\)\-]+?)\s*:\s*([0-9,\.\-]+)
InlineAt(cs, i) ==
    InlineKeyed(cs, i, {ke \in i .. RunEnd(cs, i, KeyClass) : InlineNumAt(cs, ke + 1) > 0})

RxAt(rx, cs, i) ==
    CASE rx = "json" -> JsonAt(cs, i)
      [] rx = "kv" -> KvAt(cs, i)
      [] rx = "inline" -> InlineAt(cs, i)

RECURSIVE FindIter(_, _, _)

\* The first match from the leftmost of starts, then the matches behind it
FindFrom(rx, cs, m) == <<m>> \o FindIter(rx, cs, m.end + 1)

\* pattern.finditer(cs) from position pos on
FindIter(rx, cs, pos) ==
    IF \E i \in pos .. Len(cs) : RxAt(rx, cs, i).end > 0
    THEN FindFrom(rx, cs, RxAt(rx, cs, First({i \in pos .. Len(cs) : RxAt(rx, cs, i).end > 0})))
    ELSE <<>>

-----------------------------------------------------------------------------
(* extract_embedded_kv (src/app/parser_helper.py, lines 91-143).  A record *)
(* (a dict) is the sequence of its <<key, value>> items in insertion       *)
(* order; keys are texts.                                                  *)

HasKey(parsed, k) == \E i \in 1 .. Len(parsed) : parsed[i][1] = k

\* parsed.get(k)
DictGet(parsed, k) ==
    IF HasKey(parsed, k)
    THEN parsed[CHOOSE i \in 1 .. Len(parsed) : parsed[i][1] = k][2]
    ELSE PyNone

\* parsed[k] = v
DictSet(parsed, k, v) ==
    IF HasKey(parsed, k)
    THEN <<>> \o [i \in 1 .. Len(parsed) |-> IF parsed[i][1] = k THEN <<k, v>> ELSE parsed[i]]
    ELSE Append(parsed, <<k, v>>)

\* The items of a record as a set
Items(parsed) == {parsed[i] : i \in 1 .. Len(parsed)}

\* list(dict.fromkeys(keys))
Dedup(keys) ==
    LET firsts == {i \in 1 .. Len(keys) : \A j \in 1 .. i - 1 : keys[j] # keys[i]}
    IN  <<>> \o [n \in 1 .. Cardinality(firsts) |->
                   keys[CHOOSE i \in firsts : Cardinality({j \in firsts : j <= i}) = n]]

\* Whether a discovered value is written: lines 113, 125 and 137
MayWrite(rx, parsed, canon) ==
    /\ canon # <<>>
    /\ IF rx = "json" THEN ~HasKey(parsed, canon)
       ELSE DictGet(parsed, canon) \in {PyNone, PyStr(<<>>), DictGet(parsed, canon)}

\* Lines 113-115, 125-127, 137-139
Merge(st, rx, canon, val) ==
    IF MayWrite(rx, st.parsed, canon)
    THEN [parsed |-> DictSet(st.parsed, canon, val), keys |-> Append(st.keys, canon)]
    ELSE st

\* One match of a pattern: lines 108-115, 118-127, 133-139
MergeMatch(st, rx, m) ==
    Merge(st, rx, normalize_key_label(m.key), to_number(PyStr(m.val)))

RECURSIVE MergeMatches(_, _, _, _)

\* The loop over the matches ms of a pattern, from the i-th on
MergeMatches(st, rx, ms, i) ==
    IF i > Len(ms) THEN st
    ELSE MergeMatches(MergeMatch(st, rx, ms[i]), rx, ms, i + 1)

\* Lines 131-139
ScanInline(st, txt) == MergeMatches(st, "inline", FindIter("inline", txt, 1), 1)

\* Lines 117-139
ScanKv(st, txt) == ScanInline(MergeMatches(st, "kv", FindIter("kv", txt, 1), 1), txt)

\* Lines 105-139
ScanText(st, txt) == ScanKv(MergeMatches(st, "json", FindIter("json", txt, 1), 1), txt)

RECURSIVE ScanFields(_, _, _)

\* Lines 102-139: the loop over items, the items the record had at the call
ScanFields(st, items, i) ==
    IF i > Len(items) THEN st
    ELSE IF items[i][2].t = "str"
         THEN ScanFields(ScanText(st, items[i][2].s), items, i + 1)
         ELSE ScanFields(st, items, i + 1)

\* Line 142
Deduped(st) == [parsed |-> st.parsed, keys |-> Dedup(st.keys)]

extract_embedded_kv(parsed) ==
    Deduped(ScanFields([parsed |-> parsed, keys |-> <<>>], parsed, 1))

-----------------------------------------------------------------------------
(* Calls of extract_embedded_kv: on a record, then either on the record it *)
(* returned or on the same entries in the reverse iteration order.         *)

ExtractTexts ==
    {"rate: 5", "rate: 7", "loan: 1,200", "borrower: Ann", "income=40000",
     "no pairs here", "interest_rate_annual: 9.5", "\"a.b\": \"c:d\"",
     "\"interest_rate_annual\": 9.5, \"loan_term_months\": 12"}

\* The fields records are made of
ExtractFields ==
    {<<Chars("notes"), PyText(s)>> : s \in ExtractTexts}
    \cup {<<Chars("memo"), PyText(s)>> : s \in {"rate: 7", "income=40000"}}
    \cup {<<Chars("interest_rate_annual"), PyFloat(<<55, 1>>)>>,
          <<Chars("loan_amount"), PyInt(250000)>>,
          <<Chars("income"), PyNone>>,
          <<Chars("borrower"), PyText("")>>}

\* Largest number of fields of a record
MaxFields == 2

ExtractRecords ==
    {r \in UNION {[1 .. n -> ExtractFields] : n \in 1 .. MaxFields} :
        \A i, j \in 1 .. Len(r) : i # j => r[i][1] # r[j][1]}

Reversed(r) == <<>> \o [i \in 1 .. Len(r) |-> r[Len(r) + 1 - i]]

NoExtract == [parsed |-> <<>>, keys |-> <<"pending">>]

InitExtract ==
    /\ pc = "call"
    /\ op \in {"again", "reordered"}
    /\ args \in {[record |-> <<>> \o r] : r \in ExtractRecords}
    /\ result = [first |-> NoExtract, second |-> NoExtract]

\* extract_embedded_kv(record)
Extract ==
    /\ pc = "call"
    /\ pc' = "once"
    /\ result' = [first |-> extract_embedded_kv(args.record), second |-> NoExtract]
    /\ UNCHANGED <<op, args>>

\* extract_embedded_kv applied to the record the first call returned
ExtractAgain ==
    /\ pc = "once" /\ op = "again"
    /\ pc' = "done"
    /\ result' = [result EXCEPT !.second = extract_embedded_kv(result.first.parsed)]
    /\ UNCHANGED <<op, args>>

\* extract_embedded_kv applied to the same entries in the reverse order
ExtractReordered ==
    /\ pc = "once" /\ op = "reordered"
    /\ pc' = "done"
    /\ result' = [result EXCEPT !.second = extract_embedded_kv(Reversed(args.record))]
    /\ UNCHANGED <<op, args>>

NextExtract == Extract \/ ExtractAgain \/ ExtractReordered

SpecExtract == InitExtract /\ [][NextExtract]_vars

\* Whether two values are the same value: == on numbers, identity otherwise
SameValue(a, b) == IF IsNumber(a) /\ IsNumber(b) THEN PyEq(a, b) ELSE a = b

\* Whether two records hold the same keys with the same values
SameFields(p, q) ==
    /\ \A i \in 1 .. Len(p) : HasKey(q, p[i][1]) /\ SameValue(DictGet(q, p[i][1]), p[i][2])
    /\ \A i \in 1 .. Len(q) : HasKey(p, q[i][1])

\* C14: two records with the same entries in a different iteration order give
\* resulting records that hold the same value for every field.
C14_OrderIndependent ==
    pc = "done" /\ op = "reordered" => SameFields(result.first.parsed, result.second.parsed)

\* C15: applying extract_embedded_kv to the record it returned leaves every
\* field of that record unchanged.
C15_Idempotent ==
    pc = "done" /\ op = "again" => SameFields(result.first.parsed, result.second.parsed)

-----------------------------------------------------------------------------
(* src/app/metrics.py: _find_by_alias and _canonicalize.                   *)
(*                                                                         *)
(* An optional float is <<>> (None) or <<x>>, x a float; an optional       *)
(* rounded amount is <<>> or <<n>>, n the integer number of units of the   *)
(* last decimal kept.  An audit note is the fixed part of its text.        *)

None == <<>>

Some(x) == <<x>>

\* CANONICAL_KEYS, in its order
CanonicalKeys ==
    << <<"loan_amount", <<"loan_amount", "loan", "requested_loan", "amount_requested">> >>,
       <<"property_value", <<"property_value", "property_value_estimate", "property", "value_of_property">> >>,
       <<"project_cost", <<"project_cost", "project cost", "total_project_cost", "total_project", "total_cost">> >>,
       <<"total_cost", <<"total_cost", "total project cost", "totalprojectcost">> >>,
       <<"interest_rate_annual", <<"interest_rate_annual", "interest rate (annual)", "interest_rate", "rate", "annual_rate">> >>,
       <<"term_months", <<"loan_term_months", "loan term months", "term_months", "term", "loan_term", "term_month">> >>,
       <<"income", <<"income", "annual_income", "applicant_income">> >>,
       <<"noi", <<"noi", "net_operating_income">> >>,
       <<"annual_rent", <<"annual_rent", "rental_income_annual", "annual_rental_income">> >>,
       <<"operating_expenses", <<"operating_costs", "operating_costs", "operating_expenses", "annual_expenses">> >>,
       <<"policy_flags", <<"policy_flags", "flags">> >>,
       <<"bank_red_flags", <<"bank_red_flags", "bank_flags", "red_flags">> >>,
       <<"borrower", <<"borrower", "applicant", "name">> >>,
       <<"arv", <<"arv", "after_repair_value">> >>,
       <<"purchase_price", <<"purchase_price">> >>,
       <<"refurbishment_budget", <<"refurbishment_budget", "refurb_budget">> >>,
       <<"monthly_rent", <<"monthly_rent", "rent_monthly">> >>,
       <<"dscr", <<"dscr">> >> >>

\* The canonical names whose value is not made a number (lines 113-127)
PassedThrough == {"policy_flags", "bank_red_flags", "borrower"}

\* re.sub(r"[^\w]", "", text.lower())
NormKey(cs) == SelectSeq(Lower(cs), IsWord)

\* The aliases of each canonical name, lower-cased and in normal form
CanonicalAliases ==
    <<>> \o [c \in 1 .. Len(CanonicalKeys) |->
               [lower |-> <<>> \o [j \in 1 .. Len(CanonicalKeys[c][2]) |->
                                      Lower(Chars(CanonicalKeys[c][2][j]))],
                norm  |-> <<>> \o [j \in 1 .. Len(CanonicalKeys[c][2]) |->
                                      NormKey(Chars(CanonicalKeys[c][2][j]))]]]

\* Lines 94-99: the first key, in the record's order, holding one of the
\* aliases; hits are the positions of the keys that hold one
FindBySubstring(parsed, hits) ==
    IF hits # {} THEN parsed[First(hits)][2] ELSE PyNone

\* Lines 89-99: exact are the aliases whose normal form is the normal form of
\* a key, lowered the keys of the record lower-cased; norm_map maps a normal
\* form to the last key that has it
FindByExact(parsed, lowered, aliases, exact) ==
    IF exact # {}
    THEN parsed[Last({i \in 1 .. Len(parsed) :
                         SelectSeq(lowered[i], IsWord) = aliases.norm[First(exact)]})][2]
    ELSE FindBySubstring(parsed,
                         {i \in 1 .. Len(parsed) :
                             \E j \in 1 .. Len(aliases.lower) :
                                 Contains(lowered[i], aliases.lower[j])})

\* Lines 83-99, aliases = [lower, norm] the forms of the aliases
FindByAlias(parsed, lowered, aliases) ==
    FindByExact(parsed, lowered, aliases,
                {j \in 1 .. Len(aliases.norm) :
                    \E i \in 1 .. Len(parsed) : SelectSeq(lowered[i], IsWord) = aliases.norm[j]})

\* _find_by_alias(parsed, aliases) for the aliases of CanonicalKeys[c]
find_by_alias(parsed, c) ==
    IF parsed = <<>> THEN PyNone
    ELSE FindByAlias(parsed, <<>> \o [i \in 1 .. Len(parsed) |-> Lower(parsed[i][1])],
                     CanonicalAliases[c])

\* A float of the record as an optional binary float (finite values)
OptFloat(v) == IF v.t = "float" THEN Some(Lit(v.d)) ELSE None

\* Lines 112-127 for the canonical name CanonicalKeys[c], val the value found
CanonValue(c, val) ==
    IF CanonicalKeys[c][1] \in PassedThrough THEN val
    ELSE OptFloat(to_float_safe(val))

\* Lines 118-120: the name is present and its value is no number
Unparsed(c, val) ==
    /\ CanonicalKeys[c][1] \notin PassedThrough
    /\ val # PyNone
    /\ to_float_safe(val) = PyNone

\* The values found for the canonical names, in the order of CanonicalKeys
FoundIn(parsed, lowered) ==
    <<>> \o [c \in 1 .. Len(CanonicalKeys) |->
               IF parsed = <<>> THEN PyNone
               ELSE FindByAlias(parsed, lowered, CanonicalAliases[c])]

FoundValues(parsed) ==
    FoundIn(parsed, <<>> \o [i \in 1 .. Len(parsed) |-> Lower(parsed[i][1])])

\* p of _canonicalize, from the values found
CanonRecord(found) ==
    [loan_amount          |-> CanonValue(1, found[1]),
     property_value       |-> CanonValue(2, found[2]),
     project_cost         |-> CanonValue(3, found[3]),
     total_cost           |-> CanonValue(4, found[4]),
     interest_rate_annual |-> CanonValue(5, found[5]),
     term_months          |-> CanonValue(6, found[6]),
     income               |-> CanonValue(7, found[7]),
     noi                  |-> CanonValue(8, found[8]),
     annual_rent          |-> CanonValue(9, found[9]),
     operating_expenses   |-> CanonValue(10, found[10]),
     policy_flags         |-> CanonValue(11, found[11]),
     bank_red_flags       |-> CanonValue(12, found[12]),
     borrower             |-> CanonValue(13, found[13]),
     arv                  |-> CanonValue(14, found[14]),
     purchase_price       |-> CanonValue(15, found[15]),
     refurbishment_budget |-> CanonValue(16, found[16]),
     monthly_rent         |-> CanonValue(17, found[17]),
     dscr                 |-> CanonValue(18, found[18])]

\* The note of line 120 for the canonical name CanonicalKeys[c]
UnparsedNote(c) ==
    "Field '" \o CanonicalKeys[c][1] \o "' found but could not parse numeric value"

\* audit of _canonicalize: unparsed are the canonical names present without a
\* number, in the order of CanonicalKeys
CanonAudit(unparsed) ==
    <<>> \o [n \in 1 .. Len(unparsed) |-> UnparsedNote(unparsed[n])]

CanonFrom(found) ==
    [p     |-> CanonRecord(found),
     audit |-> CanonAudit(SelectSeq(<<>> \o [c \in 1 .. Len(found) |-> c],
                                    LAMBDA c : Unparsed(c, found[c])))]

\* _canonicalize(parsed): [p, audit]
canonicalize(parsed) == CanonFrom(FoundValues(parsed))

-----------------------------------------------------------------------------
(* src/app/metrics.py: _attempt_property_scaling and compute_lending_metrics *)

\* x ** n for 1 <= n < 512
FPowPos(x, n) == FRoundCopy(FPowP(FRound(x[1], x[2], FALSE, x[3], PowPrec), n, PowPrec))

IsNone(o) == o = None

\* bool(o) for an optional float
TruthyOpt(o) == o # None /\ ~FIsZero(o[1])

\* a or b for optional floats
OrOpt(a, b) == IF TruthyOpt(a) THEN a ELSE b

\* bool(v) for a value of the record
Truthy(v) ==
    CASE v.t = "None" -> FALSE
      [] v.t = "bool" -> v.b
      [] v.t = "int" -> v.n # 0
      [] v.t = "float" -> v.d[1] # 0
      [] v.t = "str" -> v.s # <<>>
      [] v.t = "list" -> v.v # <<>>
      [] OTHER -> TRUE

PyList(items) == [t |-> "list", v |-> items]

\* 0.05 <= ltv_scaled <= 10.0
PlausibleLtv(ltv_scaled) ==
    FLe(Lit(<<5, 2>>), ltv_scaled) /\ FLe(ltv_scaled, FromInt(10))

\* Lines 186-194: [prop, msg]
AttemptScaling100(loan, prop) ==
    IF /\ FGt(prop, FZero) /\ FLt(prop, FromInt(10000))
       /\ PlausibleLtv(FDiv(loan, FMul(prop, FromInt(100))))
    THEN [prop |-> FMul(prop, FromInt(100)), msg |-> "Scaled property_value by x100"]
    ELSE [prop |-> prop, msg |-> ""]

\* _attempt_property_scaling(loan, prop) for floats loan and prop: [prop, msg]
attempt_property_scaling(loan, prop) ==
    IF /\ FGt(prop, FZero) /\ FLt(prop, FromInt(1000))
       /\ PlausibleLtv(FDiv(loan, FMul(prop, FromInt(1000))))
    THEN [prop |-> FMul(prop, FromInt(1000)), msg |-> "Scaled property_value by x1000"]
    ELSE AttemptScaling100(loan, prop)

\* Lines 213-222: the notes on the missing inputs
MissingNotes(loan, prop, project_cost, rate, term_months) ==
    (IF IsNone(loan) THEN <<"Missing or invalid loan_amount">> ELSE <<>>)
    \o (IF IsNone(prop) THEN <<"Missing or invalid property_value">> ELSE <<>>)
    \o (IF IsNone(project_cost) THEN <<"project_cost / total_cost not provided">> ELSE <<>>)
    \o (IF IsNone(rate) THEN <<"Interest rate not provided or invalid">> ELSE <<>>)
    \o (IF IsNone(term_months) THEN <<"Loan term (months) not provided or invalid">> ELSE <<>>)

SwapWarning == "Property value is orders of magnitude larger than loan"

\* Lines 239-244: the note appended, if any; loan = 0 raises ZeroDivisionError,
\* which the code passes over
SwapNotes(loan, prop) ==
    IF /\ ~IsNone(loan) /\ ~IsNone(prop)
       /\ FGt(prop[1], FZero) /\ ~FIsZero(loan[1])
       /\ FGt(FDiv(prop[1], loan[1]), FromInt(1000))
    THEN <<SwapWarning>>
    ELSE <<>>

\* Lines 225-236: whether the scaling is attempted
LtvRawHigh(loan, prop) ==
    /\ ~IsNone(loan) /\ ~IsNone(prop)
    /\ ~FIsZero(prop[1])
    /\ FGt(FDiv(loan[1], prop[1]), FromInt(10))

\* Lines 225-236: [prop, msg], prop the optional property value used from here on
Scaled(loan, prop) ==
    IF LtvRawHigh(loan, prop)
    THEN [prop |-> Some(attempt_property_scaling(loan[1], prop[1]).prop),
          msg  |-> attempt_property_scaling(loan[1], prop[1]).msg]
    ELSE [prop |-> prop, msg |-> ""]

\* r = rate; if r > 1: r = r / 100.0
RateDecimal(rate) == IF FGt(rate, FOne) THEN FDiv(rate, FromInt(100)) ELSE rate

\* The sum of the column col of the rows, in its units
ColumnSum(rows, col) == SeqSum([i \in 1 .. Len(rows) |-> rows[i][col]], 1, Len(rows))

\* ScheduleBuilt without the except clause of line 274: the exception of
\* amortization_schedule leaves the call
ScheduleBuiltUncaught(sched) ==
    IF sched.exc = "none"
    THEN [monthly_amort  |-> Some(FromDec(sched.rows[1].payment, 2)),
          total_interest |-> Some(ColumnSum(sched.rows, "interest")),
          rows           |-> Some(sched.rows),
          notes          |-> <<>>,
          raised         |-> "none"]
    ELSE [monthly_amort  |-> None,
          total_interest |-> None,
          rows           |-> None,
          notes          |-> <<>>,
          raised         |-> sched.exc]

\* Lines 271-276 once the schedule sched = [exc, rows] is known; raised is the
\* exception that leaves the try block ("none": it is caught there).  The sum of
\* the interest column is a float sum of amounts of whole cents, whose error
\* is far below half a cent: it is held as the whole number of cents it
\* rounds to at lines 308 and 406.
ScheduleBuilt(sched) ==
    IF sched.exc = "none"
    THEN [monthly_amort  |-> Some(FromDec(sched.rows[1].payment, 2)),
          total_interest |-> Some(ColumnSum(sched.rows, "interest")),
          rows           |-> Some(sched.rows),
          notes          |-> <<>>,
          raised         |-> "none"]
    ELSE [monthly_amort  |-> None,
          total_interest |-> None,
          rows           |-> None,
          notes          |-> <<"Failed to build amortization schedule">>,
          raised         |-> "none"]

\* loan * (r / 12.0) / (1 - (1 + r / 12.0) ** (-n)) for n < 0, base = 1 + r / 12.0
FallbackNegTerm(loan, r_month, n, base) ==
    LevelPaymentDen(loan, r_month,
                    FSub(FOne, IF FIsZero(base) THEN FZero ELSE FPowPos(base, 0 - n)))

\* Lines 281-288: [exc, v]
FallbackPayment(loan, r, n) ==
    IF n = 0 THEN [exc |-> "ZeroDivisionError", v |-> FZero]
    ELSE IF FIsZero(r) THEN [exc |-> "none", v |-> FDiv(loan, FromInt(n))]
    ELSE IF n > 0 THEN LevelPayment(loan, FDiv(r, FromInt(12)), n)
    ELSE FallbackNegTerm(loan, FDiv(r, FromInt(12)), n, FAdd(FOne, FDiv(r, FromInt(12))))

\* Lines 279-292 once the payment pay = [exc, v] is known; am the outcome of
\* lines 265-276
FallbackDone(am, loan, n, pay) ==
    IF pay.exc = "none"
    THEN [monthly_amort  |-> Some(pay.v),
          total_interest |-> Some(RoundDec(FSub(FMul(pay.v, FromInt(n)), loan), 2)),
          rows           |-> None,
          notes          |-> am.notes,
          raised         |-> am.raised]
    ELSE [am EXCEPT !.notes = Append(am.notes, "Fallback amortising calc failed")]

\* Lines 279-292
Fallback(am, loan, r, n) ==
    IF IsNone(am.monthly_amort) THEN FallbackDone(am, loan, n, FallbackPayment(loan, r, n))
    ELSE am

NoAmort ==
    [monthly_amort |-> None, total_interest |-> None, rows |-> None, notes |-> <<>>,
     raised |-> "none"]

\* Lines 262-292 for floats loan, r and the term n = int(term_months)
AmortisingOf(loan, r, n) == Fallback(ScheduleBuilt(amortization_schedule(loan, r, n)), loan, r, n)

\* Lines 262-292: [monthly_amort, total_interest, rows, notes, raised]
Amortising(loan, rate, term_months) ==
    IF ~IsNone(loan) /\ ~IsNone(rate) /\ TruthyOpt(term_months)
    THEN AmortisingOf(loan[1], RateDecimal(rate[1]), FTrunc(term_months[1]))
    ELSE NoAmort

\* InterestOnly with a rate of 5% assumed when the rate is missing
InterestOnlyDefaultRate(loan, rate) ==
    IF ~IsNone(loan)
    THEN Some(FDiv(FMul(loan[1], IF IsNone(rate) THEN Lit(<<5, 2>>) ELSE RateDecimal(rate[1])),
                   FromInt(12)))
    ELSE None

\* Lines 295-304: monthly_io
InterestOnly(loan, rate) ==
    IF ~IsNone(loan) /\ ~IsNone(rate)
    THEN Some(FDiv(FMul(loan[1], RateDecimal(rate[1])), FromInt(12)))
    ELSE None

\* round(x, k) if x is a number else None, for an optional float x
RoundOpt(x, k) == IF IsNone(x) THEN None ELSE Some(RoundDec(x[1], k))

\* Lines 310-311: round(monthly * 12.0, 2) if monthly else None, monthly in cents
AnnualDebtService(monthly) ==
    IF ~IsNone(monthly) /\ monthly[1] # 0
    THEN Some(RoundDec(FMul(FromDec(monthly[1], 2), FromInt(12)), 2))
    ELSE None

\* NoiOf with the rent looked at before the explicit noi field
NoiOfRentFirst(p) ==
    IF ~IsNone(p.annual_rent)
    THEN [noi |-> Some(FSub(p.annual_rent[1], OrOpt(p.operating_expenses, Some(FZero))[1])),
          from_rent |-> TRUE, from_income |-> FALSE]
    ELSE IF ~IsNone(p.noi) THEN [noi |-> p.noi, from_rent |-> FALSE, from_income |-> FALSE]
    ELSE IF ~IsNone(p.income)
    THEN [noi |-> Some(FMul(p.income[1], Lit(<<30, 2>>))),
          from_rent |-> FALSE, from_income |-> TRUE]
    ELSE [noi |-> None, from_rent |-> FALSE, from_income |-> FALSE]

\* Lines 314-330: [noi, from_rent, from_income]
NoiOf(p) ==
    IF ~IsNone(p.noi) THEN [noi |-> p.noi, from_rent |-> FALSE, from_income |-> FALSE]
    ELSE IF ~IsNone(p.annual_rent)
    THEN [noi |-> Some(FSub(p.annual_rent[1], OrOpt(p.operating_expenses, Some(FZero))[1])),
          from_rent |-> TRUE, from_income |-> FALSE]
    ELSE IF ~IsNone(p.income)
    THEN [noi |-> Some(FMul(p.income[1], Lit(<<30, 2>>))),
          from_rent |-> FALSE, from_income |-> TRUE]
    ELSE [noi |-> None, from_rent |-> FALSE, from_income |-> FALSE]

\* Lines 337-342, 347-348: noi and ads the rounded amounts in cents
Dscr(noi, ads) ==
    IF ~IsNone(noi) /\ ~IsNone(ads) /\ ads[1] # 0 /\ ads[1] > 0
    THEN Some(RoundDec(FDiv(FromDec(noi[1], 2), FromDec(ads[1], 2)), 3))
    ELSE None

\* LtvRisk with the upper band starting at 0.7 instead of 0.8
LtvRiskAt70(ltv) ==
    IF IsNone(ltv) THEN FZero
    ELSE IF FLt(FromDec(ltv[1], 4), Lit(<<6, 1>>)) THEN FZero
    ELSE IF FLt(FromDec(ltv[1], 4), Lit(<<7, 1>>)) THEN Lit(<<5, 1>>)
    ELSE FOne

\* Lines 357-365: ltv the rounded ratio in units of 0.0001
LtvRisk(ltv) ==
    IF IsNone(ltv) THEN FZero
    ELSE IF FLt(FromDec(ltv[1], 4), Lit(<<6, 1>>)) THEN FZero
    ELSE IF FLt(FromDec(ltv[1], 4), Lit(<<8, 1>>)) THEN Lit(<<5, 1>>)
    ELSE FOne

\* DscrForScore with the preference reversed: the interest-only ratio first
DscrForScoreInterestOnlyFirst(dscr_amortising, dscr_interest_only) ==
    IF ~IsNone(dscr_interest_only) THEN dscr_interest_only ELSE dscr_amortising

\* Line 367
DscrForScore(dscr_amortising, dscr_interest_only) ==
    IF ~IsNone(dscr_amortising) THEN dscr_amortising ELSE dscr_interest_only

\* Lines 368-376: d the rounded ratio in units of 0.001
DscrRisk(d) ==
    IF IsNone(d) THEN FOne
    ELSE IF FGe(FromDec(d[1], 3), Lit(<<125, 2>>)) THEN FZero
    ELSE IF FGe(FromDec(d[1], 3), FOne) THEN Lit(<<5, 1>>)
    ELSE FOne

\* Line 378
FlagsRisk(policy_flags, bank_red_flags) ==
    IF Truthy(policy_flags) \/ Truthy(bank_red_flags) THEN FOne ELSE FZero

\* min(max(x, 0.0), 1.0)
Clamp01(x) == IF FGt(FZero, x) THEN FZero ELSE IF FGt(x, FOne) THEN FOne ELSE x

\* Lines 380-381
RiskScore(ltv_risk, dscr_risk, flags_risk) ==
    Clamp01(FAdd(FAdd(FMul(Lit(<<5, 1>>), ltv_risk), FMul(Lit(<<35, 2>>), dscr_risk)),
                 FMul(Lit(<<15, 2>>), flags_risk)))

\* RiskCategory with 'Medium' starting above 0.4 instead of at 0.4
RiskCategoryAbove(risk_score) ==
    IF FGe(risk_score, Lit(<<7, 1>>)) THEN "High"
    ELSE IF FGt(risk_score, Lit(<<4, 1>>)) THEN "Medium"
    ELSE "Low"

\* Line 383
RiskCategory(risk_score) ==
    IF FGe(risk_score, Lit(<<7, 1>>)) THEN "High"
    ELSE IF FGe(risk_score, Lit(<<4, 1>>)) THEN "Medium"
    ELSE "Low"

\* Lines 351-352: a or b for values of the record
OrValue(a, b) == IF Truthy(a) THEN a ELSE b

\* RiskReasons with the flags reason put before the two DSCR reasons
RiskReasonsFlagsFirst(ltv, dscr_amortising, dscr_interest_only, flags_risk) ==
    LET reasons ==
            (IF IsNone(ltv) THEN <<>>
             ELSE IF FGe(FromDec(ltv[1], 4), Lit(<<85, 2>>)) THEN <<"High LTV">>
             ELSE IF FGe(FromDec(ltv[1], 4), Lit(<<75, 2>>)) THEN <<"Elevated LTV">>
             ELSE <<>>)
            \o (IF ~FIsZero(flags_risk) THEN <<"Policy / bank flags present">> ELSE <<>>)
            \o (IF ~IsNone(dscr_amortising) /\ FLt(FromDec(dscr_amortising[1], 3), FOne)
                THEN <<"Amortising DSCR below 1.0">> ELSE <<>>)
            \o (IF ~IsNone(dscr_interest_only) /\ FLt(FromDec(dscr_interest_only[1], 3), FOne)
                THEN <<"Interest-only DSCR below 1.0">> ELSE <<>>)
    IN  IF reasons = <<>> THEN <<"No automated flags detected">> ELSE reasons

\* Lines 386-400: ltv in units of 0.0001, the DSCRs in units of 0.001
RiskReasons(ltv, dscr_amortising, dscr_interest_only, flags_risk) ==
    LET reasons ==
            (IF IsNone(ltv) THEN <<>>
             ELSE IF FGe(FromDec(ltv[1], 4), Lit(<<85, 2>>)) THEN <<"High LTV">>
             ELSE IF FGe(FromDec(ltv[1], 4), Lit(<<75, 2>>)) THEN <<"Elevated LTV">>
             ELSE <<>>)
            \o (IF ~IsNone(dscr_amortising) /\ FLt(FromDec(dscr_amortising[1], 3), FOne)
                THEN <<"Amortising DSCR below 1.0">> ELSE <<>>)
            \o (IF ~IsNone(dscr_interest_only) /\ FLt(FromDec(dscr_interest_only[1], 3), FOne)
                THEN <<"Interest-only DSCR below 1.0">> ELSE <<>>)
            \o (IF ~FIsZero(flags_risk) THEN <<"Policy / bank flags present">> ELSE <<>>)
    IN  IF reasons = <<>> THEN <<"No automated flags detected">> ELSE reasons

\* LoanRatio without the test on the sign of the base: any non-zero base divides
LoanRatioAnyBase(loan, base) ==
    IF ~IsNone(loan) /\ ~IsNone(base) /\ ~FIsZero(base[1])
    THEN Some(RoundDec(FDiv(loan[1], base[1]), 4))
    ELSE None

\* Lines 251-259: round(loan / base, 4) in units of 0.0001, None unless both
\* are numbers and base > 0
LoanRatio(loan, base) ==
    IF ~IsNone(loan) /\ ~IsNone(base) /\ FGt(base[1], FZero)
    THEN Some(RoundDec(FDiv(loan[1], base[1]), 4))
    ELSE None

\* Lines 206-222: the inputs read from p and the notes on the missing ones;
\* items are the items of parsed, ca = [p, audit] comes from _canonicalize
MetricsInputs(items, ca) ==
    [items        |-> items,
     loan         |-> ca.p.loan_amount,
     supplied     |-> ca.p.property_value,
     project_cost |-> OrOpt(ca.p.project_cost, ca.p.total_cost),
     rate         |-> ca.p.interest_rate_annual,
     term_months  |-> ca.p.term_months,
     noi          |-> NoiOf(ca.p),
     audit        |-> ca.audit
                      \o MissingNotes(ca.p.loan_amount, ca.p.property_value,
                                      OrOpt(ca.p.project_cost, ca.p.total_cost),
                                      ca.p.interest_rate_annual, ca.p.term_months)]

\* Lines 224-259: sc = [prop, msg] the outcome of the scaling
MetricsAudited(x, sc) ==
    [prop  |-> sc.prop,
     notes |-> x.audit \o (IF sc.msg # "" THEN <<sc.msg>> ELSE <<>>) \o SwapNotes(x.loan, sc.prop),
     ltv   |-> LoanRatio(x.loan, sc.prop),
     ltc   |-> LoanRatio(x.loan, x.project_cost)]
    @@ x

\* Lines 261-331: am the outcome of the amortising calculation
MetricsPaid(x, am) ==
    [am                             |-> am,
     monthly_amortising_payment     |-> RoundOpt(am.monthly_amort, 2),
     monthly_interest_only_payment  |-> RoundOpt(InterestOnly(x.loan, x.rate), 2),
     annual_debt_service_amortising |-> AnnualDebtService(RoundOpt(am.monthly_amort, 2)),
     annual_debt_service_io         |->
         AnnualDebtService(RoundOpt(InterestOnly(x.loan, x.rate), 2)),
     noi_rounded                    |-> RoundOpt(x.noi.noi, 2)]
    @@ x

\* Lines 333-354
MetricsCovered(x) ==
    [dscr_amortising    |-> Dscr(x.noi_rounded, x.annual_debt_service_amortising),
     dscr_interest_only |-> Dscr(x.noi_rounded, x.annual_debt_service_io),
     policy_flags       |-> OrValue(OrValue(DictGet(x.items, Chars("policy_flags")),
                                            DictGet(x.items, Chars("flags"))), PyList(<<>>)),
     bank_red_flags     |-> OrValue(DictGet(x.items, Chars("bank_red_flags")), PyList(<<>>))]
    @@ x

\* Lines 356-381
MetricsScored(x) ==
    [risk_score |-> RiskScore(LtvRisk(x.ltv),
                              DscrRisk(DscrForScore(x.dscr_amortising, x.dscr_interest_only)),
                              FlagsRisk(x.policy_flags, x.bank_red_flags)),
     flags_risk |-> FlagsRisk(x.policy_flags, x.bank_red_flags)]
    @@ x

\* lm, the mapping returned
LendingMetrics(x) ==
    [input_audit_notes               |-> x.notes,
     ltv                             |-> x.ltv,
     ltc                             |-> x.ltc,
     monthly_amortising_payment      |-> x.monthly_amortising_payment,
     monthly_interest_only_payment   |-> x.monthly_interest_only_payment,
     total_interest                  |-> x.am.total_interest,
     annual_debt_service_amortising  |-> x.annual_debt_service_amortising,
     annual_debt_service_io          |-> x.annual_debt_service_io,
     noi                             |-> x.noi_rounded,
     noi_estimated_from_rent         |-> x.noi.from_rent,
     noi_estimated_from_income_proxy |-> x.noi.from_income,
     dscr_amortising                 |-> x.dscr_amortising,
     dscr_interest_only              |-> x.dscr_interest_only,
     policy_flags                    |-> x.policy_flags,
     bank_red_flags                  |-> x.bank_red_flags,
     risk_score_computed             |-> RoundDec(x.risk_score, 3),
     risk_category                   |-> RiskCategory(x.risk_score),
     risk_reasons                    |-> RiskReasons(x.ltv, x.dscr_amortising,
                                                     x.dscr_interest_only, x.flags_risk),
     amortization_preview_rows       |->
         IF IsNone(x.am.rows) THEN None
         ELSE Some(SubSeq(x.am.rows[1], 1, Min(12, Len(x.am.rows[1])))),
     amortization_total_interest     |->
         IF IsNone(x.am.rows) THEN None ELSE x.am.total_interest]

\* Lines 414-417: what the call leaves behind.  exc is the exception the call
\* raises ("none": it returns), lm the mapping returned,
\* parsed the items of the dict the call worked on, used the loan amount and
\* the property value the metrics were computed from, supplied the property
\* value read from the record, audit the audit list
MetricsReturned(x, lm) ==
    [exc      |-> x.am.raised,
     lm       |-> lm,
     parsed   |-> DictSet(DictSet(x.items, Chars("input_audit"), PyList(x.notes \o x.am.notes)),
                          Chars("lending_metrics"), [t |-> "dict", v |-> lm]),
     audit    |-> x.notes \o x.am.notes,
     loan     |-> x.loan,
     prop     |-> x.prop,
     supplied |-> x.supplied]

MetricsOf(x) == MetricsReturned(x, LendingMetrics(x))

MetricsFrom(x) ==
    MetricsOf(MetricsScored(MetricsCovered(
        MetricsPaid(x, Amortising(x.loan, x.rate, x.term_months)))))

MetricsOn(x) == MetricsFrom(MetricsAudited(x, Scaled(x.loan, x.supplied)))

\* compute_lending_metrics(parsed), parsed a dict [t |-> "dict", v |-> items]
\* or None (then the call works on a dict of its own)
compute_lending_metrics(parsed) ==
    MetricsOn(MetricsInputs(IF parsed.t = "None" THEN <<>> ELSE parsed.v,
                            canonicalize(IF parsed.t = "None" THEN <<>> ELSE parsed.v)))

-----------------------------------------------------------------------------
(* Calls of compute_lending_metrics: on a record, and then, when the       *)
(* record holds a rate p with 1 < p <= 100, on the same record with the    *)
(* rate written as the decimal p / 100.                                    *)

\* A field left out of a record
Absent == [t |-> "absent"]

\* The record with the given values, the Absent ones left out
MkRecord(loan, prop, cost, rate, term, noi, income, policy, bank) ==
    [t |-> "dict",
     v |-> SelectSeq(<< <<Chars("loan_amount"), loan>>,
                        <<Chars("property_value"), prop>>,
                        <<Chars("project_cost"), cost>>,
                        <<Chars("interest_rate_annual"), rate>>,
                        <<Chars("term_months"), term>>,
                        <<Chars("noi"), noi>>,
                        <<Chars("income"), income>>,
                        <<Chars("policy_flags"), policy>>,
                        <<Chars("bank_red_flags"), bank>> >>,
                     LAMBDA f : f[2] # Absent)]

\* Loan amount against property value, no rate and no term
AuditRecords ==
    {MkRecord(l, v, Absent, Absent, Absent, Absent, Absent, Absent, Absent) :
        l \in {PyInt(250000), PyInt(5000000), PyInt(100000), PyInt(5), PyInt(0), PyInt(-5),
               PyText("£250,000"), Absent},
        v \in {PyInt(300), PyInt(3000), PyInt(2000), PyInt(50), PyInt(120000), PyInt(300000),
               PyInt(0), PyInt(-300000), PyText("unknown"), Absent}}

\* A loan of 100000 at 5% against income, rate, term and flags
CoverRecords ==
    {MkRecord(PyInt(100000), v, Absent, r, tm, n[1], n[2], f[1], f[2]) :
        v \in {PyInt(120000), PyInt(150000), PyInt(200000)},
        r \in {PyFloat(<<5, 2>>)},
        tm \in {PyInt(12), PyInt(-3), Absent},
        n \in {<<Absent, Absent>>, <<PyInt(0), Absent>>, <<PyInt(-2000), Absent>>,
               <<PyInt(5000), Absent>>, <<PyInt(110000), Absent>>, <<PyInt(130000), Absent>>,
               <<Absent, PyInt(40000)>>},
        f \in {<<Absent, Absent>>, <<PyList(<<"manual review">>), Absent>>,
               <<PyList(<<>>), PyList(<<"overdraft">>)>>}}

\* Scenario A of the specification
ScenarioA ==
    MkRecord(PyInt(240000), PyInt(330000), Absent, PyFloat(<<55, 1>>), PyInt(300),
             Absent, PyInt(85000), Absent, Absent)

\* Scenario B of the specification
ScenarioB ==
    [t |-> "dict",
     v |-> << <<Chars("loan_amount"), PyInt(200000)>>,
              <<Chars("property_value"), PyInt(300000)>>,
              <<Chars("project_cost"), PyInt(260000)>>,
              <<Chars("interest_rate_annual"), PyFloat(<<95, 1>>)>>,
              <<Chars("loan_term_months"), PyInt(12)>> >>]

OtherRecords ==
    {ScenarioA, ScenarioB, PyNone, [t |-> "dict", v |-> <<>>],
     MkRecord(PyInt(60), Absent, Absent, PyFloat(<<11, 1>>), PyInt(12),
              Absent, Absent, Absent, Absent),
     MkRecord(PyInt(100000), PyInt(200000), PyInt(0), PyFloat(<<1, 17>>), PyInt(12),
              Absent, PyInt(40000), Absent, Absent),
     MkRecord(PyInt(100000), PyInt(200000), Absent, PyInt(5), PyInt(12),
              PyInt(0), Absent, Absent, Absent),
     MkRecord(PyInt(100000), PyInt(150000), Absent, PyInt(5), PyInt(0),
              PyInt(5000), Absent, Absent, Absent),
     MkRecord(PyInt(100000), PyInt(0), PyInt(125000), PyInt(0), PyInt(6),
              PyInt(-2000), Absent, Absent, Absent),
     MkRecord(PyInt(-1000), PyInt(50000), Absent, PyInt(-5), PyInt(6),
              PyInt(100), Absent, Absent, Absent),
     [t |-> "dict",
      v |-> << <<Chars("loan_amount"), PyInt(100000)>>,
               <<Chars("noi"), PyInt(5000)>>,
               <<Chars("annual_rent"), PyInt(24000)>>,
               <<Chars("operating_expenses"), PyInt(4000)>>,
               <<Chars("income"), PyInt(40000)>> >>],
     [t |-> "dict",
      v |-> << <<Chars("loan_amount"), PyInt(100000)>>,
               <<Chars("annual_rent"), PyInt(24000)>>,
               <<Chars("income"), PyInt(40000)>> >>],
     [t |-> "dict",
      v |-> << <<Chars("annual_rent"), PyInt(24000)>>,
               <<Chars("operating_expenses"), PyInt(30000)>> >>],
     [t |-> "dict",
      v |-> << <<Chars("noi"), PyText("tbc")>>,
               <<Chars("income"), PyFloat(<<3333333, 2>>)>> >>],
     MkRecord(PyText("n/a"), PyText("unknown"), Absent, PyText("7.5%"), PyText("24 months"),
              Absent, PyText("abc"), PyText(""), Absent),
     [t |-> "dict",
      v |-> << <<Chars("Loan Amount"), PyText("£250,000")>>,
               <<Chars("property"), PyText("300,000")>>,
               <<Chars("total_cost"), PyInt(280000)>>,
               <<Chars("rate"), PyText("7.5%")>>,
               <<Chars("term"), PyText("24 months")>>,
               <<Chars("annual_rent"), PyInt(24000)>>,
               <<Chars("operating_costs"), PyInt(4000)>>,
               <<Chars("flags"), PyList(<<"late payments">>)>> >>]}

MetricsRecords == AuditRecords \cup CoverRecords \cup OtherRecords

\* The rate a record holds under the key interest_rate_annual, if it is a
\* number p with 1 < p <= 100
IsPercentRate(parsed) ==
    /\ parsed.t = "dict"
    /\ IsNumber(DictGet(parsed.v, Chars("interest_rate_annual")))
    /\ FGt(Lit(DecOf(DictGet(parsed.v, Chars("interest_rate_annual")))), FOne)
    /\ FLe(Lit(DecOf(DictGet(parsed.v, Chars("interest_rate_annual")))), FromInt(100))

\* The record with the rate p written as the decimal p / 100
WithDecimalRate(parsed) ==
    [t |-> "dict",
     v |-> DictSet(parsed.v, Chars("interest_rate_annual"),
                   PyFloat(DecNorm(DecOf(DictGet(parsed.v, Chars("interest_rate_annual")))[1],
                                   DecOf(DictGet(parsed.v, Chars("interest_rate_annual")))[2] + 2)))]

NoMetrics == [exc |-> "pending"]

InitMetrics ==
    /\ pc = "call"
    /\ op = "compute_lending_metrics"
    /\ args \in {[parsed |-> r] : r \in MetricsRecords}
    /\ result = [first |-> NoMetrics, second |-> NoMetrics]

\* compute_lending_metrics(parsed)
CallMetrics ==
    /\ pc = "call"
    /\ pc' = "done"
    /\ result' = [first |-> compute_lending_metrics(args.parsed), second |-> NoMetrics]
    /\ UNCHANGED <<op, args>>

\* compute_lending_metrics on the record with the rate as a decimal
CallMetricsDecimal ==
    /\ pc = "done"
    /\ IsPercentRate(args.parsed)
    /\ pc' = "compared"
    /\ result' = [result EXCEPT !.second = compute_lending_metrics(WithDecimalRate(args.parsed))]
    /\ UNCHANGED <<op, args>>

NextMetrics == CallMetrics \/ CallMetricsDecimal

SpecMetrics == InitMetrics /\ [][NextMetrics]_vars

\* The first call has returned or raised
MetricsDone == pc \in {"done", "compared"}


\* ---------------------------------------------------------------------------
\* Claims about compute_lending_metrics (SpecMetrics)

\* C13: compute_lending_metrics does not modify the record passed to it: after
\* the call the record has exactly the keys and values it had before.
C13_InputUnchanged ==
    MetricsDone /\ args.parsed.t = "dict" => result.first.parsed = args.parsed.v

\* The record the call canonicalises: the argument, or {} for None
RecordItems == IF args.parsed.t = "None" THEN <<>> ELSE args.parsed.v

\* C16: the call returns ltv = loan_amount / property_value (the property value
\* the audit left, to 4 decimals) when both are numbers and property_value > 0
\* and ltv = None otherwise; ltc = loan_amount / (project_cost or total_cost)
\* under the same conditions on the cost and None otherwise; for Scenario B
\* ltv = 0.6667, ltc = 0.7692 and monthly_interest_only_payment = 1583.33.
C16_LtvLtc ==
    MetricsDone /\ result.first.exc = "none" =>
        LET p    == canonicalize(RecordItems).p
            loan == p.loan_amount
            prop == result.first.prop
            cost == IF TruthyOpt(p.project_cost) THEN p.project_cost ELSE p.total_cost
        IN  /\ result.first.lm.ltv =
                   IF loan # None /\ prop # None /\ FGt(prop[1], FZero)
                   THEN Some(RoundDec(FDiv(loan[1], prop[1]), 4)) ELSE None
            /\ result.first.lm.ltc =
                   IF loan # None /\ cost # None /\ FGt(cost[1], FZero)
                   THEN Some(RoundDec(FDiv(loan[1], cost[1]), 4)) ELSE None
            /\ args.parsed = ScenarioB =>
                   /\ result.first.lm.ltv = Some(6667)
                   /\ result.first.lm.ltc = Some(7692)
                   /\ result.first.lm.monthly_interest_only_payment = Some(158333)

\* Scenario B has been computed: ltv and ltc are numbers
C16_Witness ==
    /\ pc = "done"
    /\ args.parsed = ScenarioB
    /\ result.first.lm.ltv = Some(6667)
    /\ result.first.lm.ltc = Some(7692)

\* C17: when loan_amount / property_value > 10 the property value used is the
\* supplied one x 1000 if that LTV lies in [0.05, 10.0], otherwise the supplied
\* one x 100 under the same test, otherwise the supplied one unchanged; the
\* multiplier depends on nothing but these two LTV tests.
C17_Rescaling ==
    LET loan     == result.first.loan
        supplied == result.first.supplied
        InRange(ltv) == FLe(Lit(<<5, 2>>), ltv) /\ FLe(ltv, FromInt(10))
        by1000   == FMul(supplied[1], FromInt(1000))
        by100    == FMul(supplied[1], FromInt(100))
    IN  /\ MetricsDone
        /\ loan # None /\ supplied # None /\ ~FIsZero(supplied[1])
        /\ FGt(FDiv(loan[1], supplied[1]), FromInt(10))
        => result.first.prop =
               Some(IF InRange(FDiv(loan[1], by1000)) THEN by1000
                    ELSE IF InRange(FDiv(loan[1], by100)) THEN by100
                    ELSE supplied[1])

\* The notes of the audit list the call leaves behind
AuditNotes == {result.first.audit[i] : i \in DOMAIN result.first.audit}

\* C18: the property value used differs from the supplied one only when a
\* 'Scaled property_value' note is appended; loan_amount is never altered; and
\* when property_value / loan_amount > 1000 the field-swap warning is appended
\* and no value is changed.
C18_AuditNeverSilent ==
    LET loan     == result.first.loan
        supplied == result.first.supplied
    IN  MetricsDone =>
        /\ result.first.prop # supplied =>
               AuditNotes \cap {"Scaled property_value by x1000",
                                "Scaled property_value by x100"} # {}
        /\ loan = canonicalize(RecordItems).p.loan_amount
        /\ (/\ loan # None /\ supplied # None /\ ~FIsZero(loan[1])
            /\ FGt(FDiv(supplied[1], loan[1]), FromInt(1000)))
           => SwapWarning \in AuditNotes /\ result.first.prop = supplied

\* C19: risk_score = 0.50*L + 0.35*D + 0.15*F clamped to [0, 1]; L is 0 if ltv
\* is None or below 0.60, 0.5 if 0.60 <= ltv < 0.80, 1 if ltv >= 0.80; D comes
\* from dscr_amortising when it is available and otherwise from
\* dscr_interest_only: 0 if dscr >= 1.25, 0.5 if 1.0 <= dscr < 1.25, 1 if
\* dscr < 1.0 or no DSCR was computed; F is 1 if a policy or bank red flag is
\* present, else 0.  (Score in thousandths, L and D in halves.)
C19_RiskScoreFormula ==
    MetricsDone /\ result.first.exc = "none" =>
        LET lm   == result.first.lm
            L    == IF lm.ltv = None \/ lm.ltv[1] < 6000 THEN 0
                    ELSE IF lm.ltv[1] < 8000 THEN 1 ELSE 2
            dscr == IF lm.dscr_amortising # None THEN lm.dscr_amortising
                    ELSE lm.dscr_interest_only
            D    == IF dscr = None THEN 2
                    ELSE IF dscr[1] >= 1250 THEN 0
                    ELSE IF dscr[1] >= 1000 THEN 1 ELSE 2
            F    == IF lm.policy_flags.v # <<>> \/ lm.bank_red_flags.v # <<>> THEN 1 ELSE 0
        IN  lm.risk_score_computed = Max(0, Min(1000, 250 * L + 175 * D + 150 * F))

\* A call where the amortising DSCR is below 1.0 and the interest-only DSCR is
\* not, with an LTV in the middle band and a flag: 0.25 + 0.35 + 0.15
C19_Witness ==
    /\ pc = "done"
    /\ result.first.lm.ltv = Some(6667)
    /\ result.first.lm.dscr_amortising = Some(49)
    /\ result.first.lm.dscr_interest_only = Some(1000)
    /\ result.first.lm.policy_flags.v # <<>>
    /\ result.first.lm.risk_score_computed = 750

\* noi / annual debt service to 3 decimals when both are positive amounts (in
\* cents), None in every other case
GuardedDscr(noi, ads) ==
    IF noi # None /\ ads # None /\ noi[1] > 0 /\ ads[1] > 0
    THEN Some(RoundDec(FDiv(FromDec(noi[1], 2), FromDec(ads[1], 2)), 3))
    ELSE None

\* C20: dscr_amortising (resp. dscr_interest_only) equals noi /
\* annual_debt_service_amortising (resp. annual_debt_service_io) when both noi
\* and that debt service are positive numbers, and is None in every other case,
\* including noi zero or negative.
C20_DscrGuard ==
    MetricsDone /\ result.first.exc = "none" =>
        LET lm == result.first.lm
        IN  /\ lm.dscr_amortising = GuardedDscr(lm.noi, lm.annual_debt_service_amortising)
            /\ lm.dscr_interest_only = GuardedDscr(lm.noi, lm.annual_debt_service_io)

\* ---------------------------------------------------------------------------
\* Further claims about extract_embedded_kv (SpecExtract)

\* Whether a value of a record is null or the empty text
IsBlank(v) == v.t = "None" \/ (v.t = "str" /\ v.s = <<>>)

\* C1: extract_embedded_kv never overwrites a field that already holds a
\* non-null, non-empty value: every such field of the input record has the same
\* value after the call, whatever the record's text fields contain.
C1_NoOverwrite ==
    pc \in {"once", "done"} =>
        \A i \in 1 .. Len(args.record) :
            ~IsBlank(args.record[i][2]) =>
                /\ HasKey(result.first.parsed, args.record[i][1])
                /\ SameValue(DictGet(result.first.parsed, args.record[i][1]),
                             args.record[i][2])

\* Scenario D of the specification: a record whose only field is notes
ScenarioD ==
    << <<Chars("notes"),
         PyText("\"interest_rate_annual\": 9.5, \"loan_term_months\": 12")>> >>

\* How many times key k appears in the list keys
Occurrences(keys, k) == Cardinality({i \in 1 .. Len(keys) : keys[i] = k})

\* C8: for Scenario D the record has interest_rate_annual == 9.5 and
\* loan_term_months == 12 after the call, and each of the two keys appears
\* exactly once in the returned list of extracted keys.
C8_ScenarioD ==
    pc \in {"once", "done"} /\ args.record = ScenarioD =>
        /\ HasKey(result.first.parsed, Chars("interest_rate_annual"))
        /\ PyEq(DictGet(result.first.parsed, Chars("interest_rate_annual")), PyFloat(<<95, 1>>))
        /\ HasKey(result.first.parsed, Chars("loan_term_months"))
        /\ PyEq(DictGet(result.first.parsed, Chars("loan_term_months")), PyInt(12))
        /\ Occurrences(result.first.keys, Chars("interest_rate_annual")) = 1
        /\ Occurrences(result.first.keys, Chars("loan_term_months")) = 1

\* ---------------------------------------------------------------------------
\* Further claims about compute_lending_metrics (SpecMetrics)

\* C5: the call returns risk_score_computed in [0.0, 1.0] (thousandths here),
\* and risk_category is 'High' exactly when the score is >= 0.70, 'Medium'
\* exactly when 0.40 <= score < 0.70 and 'Low' exactly when score < 0.40.
C5_ScoreAndCategory ==
    MetricsDone /\ result.first.exc = "none" =>
        LET score    == result.first.lm.risk_score_computed
            category == result.first.lm.risk_category
        IN  /\ 0 <= score /\ score <= 1000
            /\ category \in {"High", "Medium", "Low"}
            /\ category = "High" <=> score >= 700
            /\ category = "Medium" <=> (400 <= score /\ score < 700)
            /\ category = "Low" <=> score < 400

\* A call whose score is exactly 0.40, the lower end of 'Medium'
C5_Witness ==
    /\ pc = "done"
    /\ result.first.lm.risk_score_computed = 400
    /\ result.first.lm.risk_category = "Medium"

\* C6: compute_lending_metrics never raises: for every input record (None,
\* missing fields, unparsable texts, zero or negative loan, property value,
\* rate or term) it returns a metrics mapping, the fields that depend on a
\* missing or unparsable input being None.
C6_NeverRaises ==
    MetricsDone =>
        LET p  == canonicalize(RecordItems).p
            lm == result.first.lm
        IN  /\ result.first.exc = "none"
            /\ lm.risk_category \in {"High", "Medium", "Low"}
            /\ p.loan_amount = None =>
                   /\ lm.ltv = None /\ lm.ltc = None
                   /\ lm.monthly_amortising_payment = None
                   /\ lm.monthly_interest_only_payment = None
            /\ p.property_value = None => lm.ltv = None
            /\ p.interest_rate_annual = None =>
                   /\ lm.monthly_amortising_payment = None
                   /\ lm.monthly_interest_only_payment = None
            /\ p.term_months = None => lm.monthly_amortising_payment = None

\* A call in which amortization_schedule raised (a negative term) and the
\* metrics were returned all the same
C6_Witness ==
    /\ pc = "done"
    /\ result.first.exc = "none"
    /\ "Failed to build amortization schedule" \in AuditNotes
    /\ result.first.lm.monthly_amortising_payment # None

\* C7 as the specification states it: for Scenario A the call returns
\* ltv = 0.7273, noi = 25500 flagged as estimated from the income proxy, and
\* risk_category 'Medium'.
C7_ScenarioA_Medium ==
    MetricsDone /\ args.parsed = ScenarioA =>
        /\ result.first.lm.ltv = Some(7273)
        /\ result.first.lm.noi = Some(2550000)
        /\ result.first.lm.noi_estimated_from_income_proxy
        /\ result.first.lm.risk_category = "Medium"

\* C7, amended: for Scenario A the call returns ltv = 0.7273, noi = 25500
\* flagged as estimated from the income proxy, dscr_amortising = 1.442, risk
\* score 0.25 and risk_category 'Low'.
C7_ScenarioA_Low ==
    MetricsDone /\ args.parsed = ScenarioA =>
        /\ result.first.exc = "none"
        /\ result.first.lm.ltv = Some(7273)
        /\ result.first.lm.noi = Some(2550000)
        /\ result.first.lm.noi_estimated_from_income_proxy
        /\ ~result.first.lm.noi_estimated_from_rent
        /\ result.first.lm.dscr_amortising = Some(1442)
        /\ result.first.lm.risk_score_computed = 250
        /\ result.first.lm.risk_category = "Low"

\* Scenario A has been computed
C7_Witness ==
    /\ pc = "done"
    /\ args.parsed = ScenarioA
    /\ result.first.lm.monthly_amortising_payment = Some(147381)
    /\ result.first.lm.risk_category = "Low"

\* C9: two records that differ only in interest_rate_annual, one holding a
\* percentage p with 1 < p <= 100 and the other the decimal p / 100, yield
\* identical monthly_interest_only_payment and identical
\* monthly_amortising_payment.
C9_RateSymmetry ==
    pc = "compared" =>
        /\ result.second.lm.monthly_interest_only_payment
               = result.first.lm.monthly_interest_only_payment
        /\ result.second.lm.monthly_amortising_payment
               = result.first.lm.monthly_amortising_payment

\* ---------------------------------------------------------------------------
\* detect_implausible_loan

\* isinstance(v, (int, float)): bool is an int
IsIntFloatOrBool(v) == v.t \in {"int", "float", "bool", "nan", "inf"}

\* The double a finite int, float or bool compares as
NumberOf(v) ==
    IF v.t = "bool" THEN (IF v.b THEN FOne ELSE FZero) ELSE Lit(DecOf(v))

\* v > 0
IsPositive(v) ==
    CASE v.t = "nan" -> FALSE
      [] v.t = "inf" -> v.sign > 0
      [] OTHER -> FGt(NumberOf(v), FZero)

\* Line 159: loan < 100 for loan > 0
IsBelow100(loan) ==
    IF loan.t \in {"nan", "inf"} THEN FALSE ELSE FLt(NumberOf(loan), FromInt(100))

\* Line 162: loan / prop < 0.01 for loan > 0 and prop > 0
RatioBelow(loan, prop) ==
    IF loan.t \in {"nan", "inf"} THEN FALSE
    ELSE IF prop.t = "inf" THEN TRUE
    ELSE FLt(FDiv(NumberOf(loan), NumberOf(prop)), Lit(<<1, 2>>))

\* Lines 156-166 for loan and prop as read at lines 154-155
DetectFrom(loan, prop) ==
    IF loan.t = "None" THEN FALSE
    ELSE IF IsIntFloatOrBool(loan) /\ IsPositive(loan)
    THEN IF IsBelow100(loan) THEN TRUE
         ELSE /\ Truthy(prop) /\ IsIntFloatOrBool(prop) /\ IsPositive(prop)
              /\ RatioBelow(loan, prop)
    ELSE FALSE

\* detect_implausible_loan(parsed); parsed = None raises AttributeError inside
\* the try block, and the function returns False
detect_implausible_loan(parsed) ==
    IF parsed.t = "None" THEN FALSE
    ELSE DetectFrom(DictGet(parsed.v, Chars("loan_amount")),
                    OrValue(OrValue(DictGet(parsed.v, Chars("property_value")),
                                    DictGet(parsed.v, Chars("project_cost"))),
                            DictGet(parsed.v, Chars("total_cost"))))

\* The record with the given values, the Absent ones left out
MkLoanRecord(loan, prop, cost, total) ==
    [t |-> "dict",
     v |-> SelectSeq(<< <<Chars("loan_amount"), loan>>,
                        <<Chars("property_value"), prop>>,
                        <<Chars("project_cost"), cost>>,
                        <<Chars("total_cost"), total>> >>,
                     LAMBDA f : f[2] # Absent)]

DetectRecords ==
    {MkLoanRecord(l, v, c, tc) :
        l \in {Absent, PyNone, PyInt(5), PyInt(99), PyInt(100), PyInt(1000), PyInt(2999),
               PyInt(3000), PyInt(250000), PyInt(0), PyInt(-5), PyFloat(<<9999, 2>>),
               PyText("50"), PyBool(TRUE), PyNan, PyInf(1)},
        v \in {Absent, PyNone, PyInt(0), PyInt(300000), PyInt(-300000), PyInt(100000),
               PyText("300000"), PyInf(1)},
        c \in {Absent, PyInt(300000), PyInt(50)},
        tc \in {Absent, PyInt(300000)}}
    \cup {PyNone}

NoDetect == [returned |-> FALSE, flag |-> FALSE]

InitDetect ==
    /\ pc = "call"
    /\ op = "detect_implausible_loan"
    /\ args \in {[parsed |-> r] : r \in DetectRecords}
    /\ result = NoDetect

\* detect_implausible_loan(parsed)
CallDetect ==
    /\ pc = "call"
    /\ pc' = "done"
    /\ result' = [returned |-> TRUE, flag |-> detect_implausible_loan(args.parsed)]
    /\ UNCHANGED <<op, args>>

NextDetect == CallDetect

SpecDetect == InitDetect /\ [][NextDetect]_vars

\* The first available of property_value, project_cost and total_cost
ReferenceCost(items) ==
    IF DictGet(items, Chars("property_value")).t # "None"
    THEN DictGet(items, Chars("property_value"))
    ELSE IF DictGet(items, Chars("project_cost")).t # "None"
    THEN DictGet(items, Chars("project_cost"))
    ELSE DictGet(items, Chars("total_cost"))

\* The predicate as the specification states it, for a loan amount and a
\* reference cost that are numbers or missing
ClaimedImplausible(loan, ref) ==
    /\ loan.t # "None"
    /\ \/ FLt(NumberOf(loan), FromInt(100))
       \/ ref.t # "None" /\ FLt(FDiv(NumberOf(loan), NumberOf(ref)), Lit(<<1, 2>>))

\* C10: detect_implausible_loan returns true if and only if loan_amount is
\* present and either loan_amount < 100 or loan_amount / reference_cost < 0.01,
\* the reference cost being the first available of property_value,
\* project_cost and total_cost; in particular it returns true for
\* {loan_amount: 5, property_value: 300000}.  (Stated for records whose loan
\* amount and reference cost are numbers or missing, the cost not zero.)
C10_DetectIff ==
    /\ pc = "done" /\ args.parsed.t = "dict"
    /\ DictGet(args.parsed.v, Chars("loan_amount")).t \in {"None", "int", "float"}
    /\ ReferenceCost(args.parsed.v).t \in {"None", "int", "float"}
    /\ Truthy(ReferenceCost(args.parsed.v)) \/ ReferenceCost(args.parsed.v).t = "None"
    => /\ result.flag <=> ClaimedImplausible(DictGet(args.parsed.v, Chars("loan_amount")),
                                             ReferenceCost(args.parsed.v))
       /\ args.parsed = MkLoanRecord(PyInt(5), PyInt(300000), Absent, Absent) => result.flag

\* ---------------------------------------------------------------------------
\* Claims about the audit log and the derived metrics (SpecMetrics)

\* How many times note appears in the audit log the call leaves behind
NoteCount(note) ==
    Cardinality({i \in DOMAIN result.first.audit : result.first.audit[i] = note})

\* 1 when the canonical value is None, else 0
OneIfNone(value) == IF value = None THEN 1 ELSE 0

\* C21: for each of the five required inputs (loan_amount, property_value,
\* project_cost/total_cost, interest_rate_annual, term_months) the audit log
\* holds exactly one missing-field entry when the canonical value of the input
\* is None and no such entry when it is present.
C21_MissingInputAudit ==
    MetricsDone =>
        LET p == canonicalize(RecordItems).p
        IN  /\ NoteCount("Missing or invalid loan_amount") = OneIfNone(p.loan_amount)
            /\ NoteCount("Missing or invalid property_value") = OneIfNone(p.property_value)
            /\ NoteCount("project_cost / total_cost not provided")
                   = IF p.project_cost = None /\ p.total_cost = None THEN 1 ELSE 0
            /\ NoteCount("Interest rate not provided or invalid")
                   = OneIfNone(p.interest_rate_annual)
            /\ NoteCount("Loan term (months) not provided or invalid")
                   = OneIfNone(p.term_months)

\* C22: every metric is None whenever an input it depends on is None:
\* loan_amount None implies ltv, ltc, both monthly payments, both annual debt
\* services and both DSCRs are None; property_value None implies ltv is None;
\* interest_rate_annual None implies both monthly payments, both annual debt
\* services and both DSCRs are None; metrics that do not depend on the missing
\* input are still computed.
C22_NoFabricatedDefaults ==
    MetricsDone /\ result.first.exc = "none" =>
        LET p  == canonicalize(RecordItems).p
            lm == result.first.lm
            NoPayments ==
                /\ lm.monthly_amortising_payment = None
                /\ lm.monthly_interest_only_payment = None
                /\ lm.annual_debt_service_amortising = None
                /\ lm.annual_debt_service_io = None
                /\ lm.dscr_amortising = None
                /\ lm.dscr_interest_only = None
        IN  /\ p.loan_amount = None => lm.ltv = None /\ lm.ltc = None /\ NoPayments
            /\ p.property_value = None => lm.ltv = None
            /\ p.interest_rate_annual = None => NoPayments
            /\ (/\ p.loan_amount # None /\ p.property_value # None
                /\ FGt(result.first.prop[1], FZero)) => lm.ltv # None
            /\ p.loan_amount # None /\ p.interest_rate_annual # None
                   => lm.monthly_interest_only_payment # None

\* A call without a rate: the payments are None and the LTV is computed
C22_Witness ==
    /\ pc = "done"
    /\ "Interest rate not provided or invalid" \in AuditNotes
    /\ result.first.lm.ltv = Some(8333)
    /\ result.first.lm.monthly_interest_only_payment = None
    /\ result.first.lm.annual_debt_service_io = None

\* C23: when loan_amount and rate are present and term_months is zero or
\* negative, the call does not abort; it records the failure as an audit note
\* and falls back to the level-payment formula for the amortising payment.
C23_AmortFailureHandled ==
    LET p == canonicalize(RecordItems).p
    IN  /\ MetricsDone
        /\ p.loan_amount # None /\ p.interest_rate_annual # None
        /\ p.term_months # None /\ ~FGt(p.term_months[1], FZero)
        => /\ result.first.exc = "none"
           /\ AuditNotes \cap {"Failed to build amortization schedule",
                               "Fallback amortising calc failed"} # {}
           /\ result.first.lm.monthly_amortising_payment # None
           /\ result.first.lm.amortization_preview_rows = None

\* C24: whenever loan_amount and rate are present the call returns
\* monthly_interest_only_payment = loan_amount x rate / 12 (the rate as a
\* decimal, amounts to the cent), whether term_months is present, missing or
\* invalid; and annual_debt_service_io = monthly_interest_only_payment x 12.
C24_InterestOnly ==
    LET p    == canonicalize(RecordItems).p
        loan == p.loan_amount[1]
        rate == p.interest_rate_annual[1]
        r    == IF FGt(rate, FOne) THEN FDiv(rate, FromInt(100)) ELSE rate
        lm   == result.first.lm
    IN  /\ MetricsDone /\ result.first.exc = "none"
        /\ p.loan_amount # None /\ p.interest_rate_annual # None
        => /\ lm.monthly_interest_only_payment
                  = Some(RoundDec(FDiv(FMul(loan, r), FromInt(12)), 2))
           /\ lm.annual_debt_service_io
                  = Some(RoundDec(FMul(FromDec(lm.monthly_interest_only_payment[1], 2),
                                       FromInt(12)), 2))

\* C25: noi is the explicit noi field if present; otherwise annual_rent -
\* operating_expenses if annual_rent is present, with noi_estimated_from_rent
\* set; otherwise income x 0.30, with noi_estimated_from_income_proxy set;
\* otherwise None.  At most one of the two flags is set, and none when noi is
\* explicit.  (Amounts to the cent.)
C25_NoiResolution ==
    MetricsDone /\ result.first.exc = "none" =>
        LET p    == canonicalize(RecordItems).p
            lm   == result.first.lm
            opex == IF p.operating_expenses = None THEN FZero ELSE p.operating_expenses[1]
        IN  /\ ~(lm.noi_estimated_from_rent /\ lm.noi_estimated_from_income_proxy)
            /\ IF p.noi # None
               THEN /\ lm.noi = Some(RoundDec(p.noi[1], 2))
                    /\ ~lm.noi_estimated_from_rent /\ ~lm.noi_estimated_from_income_proxy
               ELSE IF p.annual_rent # None
               THEN /\ lm.noi = Some(RoundDec(FSub(p.annual_rent[1], opex), 2))
                    /\ lm.noi_estimated_from_rent
               ELSE IF p.income # None
               THEN /\ lm.noi = Some(RoundDec(FMul(p.income[1], Lit(<<3, 1>>)), 2))
                    /\ lm.noi_estimated_from_income_proxy
               ELSE /\ lm.noi = None
                    /\ ~lm.noi_estimated_from_rent /\ ~lm.noi_estimated_from_income_proxy

\* A call on a record holding noi, annual_rent and income: the explicit noi wins
C25_Witness ==
    /\ pc = "done"
    /\ HasKey(RecordItems, Chars("noi")) /\ HasKey(RecordItems, Chars("annual_rent"))
    /\ HasKey(RecordItems, Chars("income"))
    /\ result.first.lm.noi = Some(500000)
    /\ ~result.first.lm.noi_estimated_from_rent

\* ---------------------------------------------------------------------------
\* _find_by_alias on labels that vary an alias (SpecAlias)

LowerLetters == {SubSeq("abcdefghijklmnopqrstuvwxyz", i, i) : i \in 1 .. 26}

UpperChar(c) ==
    IF c \in LowerLetters
    THEN SubSeq("ABCDEFGHIJKLMNOPQRSTUVWXYZ",
                CHOOSE i \in 1 .. 26 : SubSeq("abcdefghijklmnopqrstuvwxyz", i, i) = c,
                CHOOSE i \in 1 .. 26 : SubSeq("abcdefghijklmnopqrstuvwxyz", i, i) = c)
    ELSE c

Upper(cs) == <<>> \o [i \in 1 .. Len(cs) |-> UpperChar(cs[i])]

\* The ways a raw label varies an alias: letter case, spaces or hyphens in
\* place of underscores
LabelStyles == {"same", "upper", "spaces", "hyphens", "upper spaces"}

Styled(cs, style) ==
    CASE style = "same" -> cs
      [] style = "upper" -> Upper(cs)
      [] style = "spaces" -> ReplaceChars(cs, {"_"}, " ")
      [] style = "hyphens" -> ReplaceChars(cs, {"_"}, "-")
      [] style = "upper spaces" -> Upper(ReplaceChars(cs, {"_"}, " "))

\* The value held under the label
LabelValue == PyInt(123)

\* The aliases of CANONICAL_KEYS: <<c, j>> is the j-th alias of the c-th name
AliasPositions ==
    UNION {{<<c, j>> : j \in 1 .. Len(CanonicalKeys[c][2])} : c \in 1 .. Len(CanonicalKeys)}

NoFind == [returned |-> FALSE, value |-> PyNone]

InitAlias ==
    /\ pc = "call"
    /\ op = "_find_by_alias"
    /\ args \in {[c |-> a[1], label |-> Styled(Chars(CanonicalKeys[a[1]][2][a[2]]), style)] :
                    a \in AliasPositions, style \in LabelStyles}
    /\ result = NoFind

\* _find_by_alias({label: value}, CANONICAL_KEYS[c])
CallFind ==
    /\ pc = "call"
    /\ pc' = "done"
    /\ result' = [returned |-> TRUE,
                  value |-> find_by_alias(<< <<args.label, LabelValue>> >>, args.c)]
    /\ UNCHANGED <<op, args>>

NextAlias == CallFind

SpecAlias == InitAlias /\ [][NextAlias]_vars

\* C26: for every canonical field c and every variant v of its alias list, a
\* raw label that differs from v only in letter case, whitespace or
\* punctuation (spaces in place of underscores, as 'Annual Rent' for
\* 'annual_rent') resolves to c: its value populates canonical field c.
C26_AliasNormalized ==
    pc = "done" => PyEq(result.value, LabelValue)

\* ---------------------------------------------------------------------------
\* The list of extracted keys (SpecExtract)

\* C27: the extracted_keys list returned by extract_embedded_kv holds no
\* duplicates and only names of fields newly populated by the call, i.e.
\* fields that were absent or empty in the input record and hold a value in
\* the returned one.
C27_ExtractedKeys ==
    pc \in {"once", "done"} =>
        LET keys == result.first.keys
        IN  /\ \A i, j \in 1 .. Len(keys) : keys[i] = keys[j] => i = j
            /\ \A i \in 1 .. Len(keys) :
                   /\ HasKey(result.first.parsed, keys[i])
                   /\ HasKey(args.record, keys[i]) => IsBlank(DictGet(args.record, keys[i]))

\* ---------------------------------------------------------------------------
\* Claims about risk_reasons and the audit notes of the result (SpecMetrics)

\* The reasons that apply, in the order the specification fixes, from the
\* returned ltv (units of 0.0001), DSCRs (units of 0.001) and flags
ConcreteReasons(lm) ==
    (IF lm.ltv # None /\ lm.ltv[1] >= 8500 THEN <<"High LTV">>
     ELSE IF lm.ltv # None /\ lm.ltv[1] >= 7500 THEN <<"Elevated LTV">>
     ELSE <<>>)
    \o (IF lm.dscr_amortising # None /\ lm.dscr_amortising[1] < 1000
        THEN <<"Amortising DSCR below 1.0">> ELSE <<>>)
    \o (IF lm.dscr_interest_only # None /\ lm.dscr_interest_only[1] < 1000
        THEN <<"Interest-only DSCR below 1.0">> ELSE <<>>)
    \o (IF lm.policy_flags.v # <<>> \/ lm.bank_red_flags.v # <<>>
        THEN <<"Policy / bank flags present">> ELSE <<>>)

\* C28: risk_reasons is never empty and is built in the fixed order: LTV
\* reason ('High' if ltv >= 0.85, else 'Elevated' if ltv >= 0.75), amortising
\* DSCR below 1.0, interest-only DSCR below 1.0, flags present; 'No automated
\* flags detected' appears if and only if no other reason applies, and is then
\* the only entry.
C28_RiskReasons ==
    MetricsDone /\ result.first.exc = "none" =>
        LET lm == result.first.lm
        IN  /\ lm.risk_reasons # <<>>
            /\ lm.risk_reasons = IF ConcreteReasons(lm) = <<>>
                                 THEN <<"No automated flags detected">>
                                 ELSE ConcreteReasons(lm)

\* A call to which an LTV reason, both DSCR reasons and the flags reason apply
C28_Witness ==
    /\ pc = "done"
    /\ result.first.lm.risk_reasons
           = <<"Elevated LTV", "Amortising DSCR below 1.0",
               "Interest-only DSCR below 1.0", "Policy / bank flags present">>

\* C29: the result holds the accumulated audit log of the call: every audit
\* entry produced during the computation, those logged while computing
\* payments and DSCR included, appears in the result's input_audit_notes, in
\* the order produced.
C29_AuditInResult ==
    MetricsDone /\ result.first.exc = "none" =>
        result.first.lm.input_audit_notes = result.first.audit

\* C30: whenever the call returns a risk_category other than 'Low',
\* risk_reasons holds at least one concrete reason: it is not just
\* ['No automated flags detected'].
C30_Explainable ==
    MetricsDone /\ result.first.exc = "none" /\ result.first.lm.risk_category # "Low"
        => result.first.lm.risk_reasons # <<"No automated flags detected">>
=============================================================================
